---- MODULE Spec2Model ----
(***************************************************************************)
(* A model of xmlserde: the XmlValue scalar codecs, the code generated by  *)
(* the XmlSerialize / XmlDeserialize derives (interpreted over a schema    *)
(* held as data), Unparsed, and the entry points of the crate.             *)
(*                                                                         *)
(* Strings that the program converts (attribute values, text content) are  *)
(* sequences of one-character strings, so that parsing, formatting and     *)
(* trimming are computed.  Tag names and attribute keys are only ever      *)
(* compared, and are plain strings.  The character universe holds no       *)
(* character that XML escapes.                                             *)
(***************************************************************************)
EXTENDS Integers, Sequences, FiniteSets, TLC

VARIABLES root, doc, phase, rec, res, out

vars == <<root, doc, phase, rec, res, out>>

----------------------------------------------------------------------------
(* Results.  Rust's Result<T, String> and a panic that unwinds the call.   *)

Ok(v) == [ok |-> TRUE, v |-> <<v>>, msg |-> ""]

Err(m) == [ok |-> FALSE, v |-> <<>>, msg |-> m]

----------------------------------------------------------------------------
(* XmlValue for the numeric types, bool and String (src/src/lib.rs).       *)

Digits == <<"0", "1", "2", "3", "4", "5", "6", "7", "8", "9">>

IsDigit(c) == \E i \in 1..10 : Digits[i] = c

DigitVal(c) == (CHOOSE i \in 1..10 : Digits[i] = c) - 1

U16Max == 65535

RECURSIVE ParseDigits(_, _)
ParseDigits(s, acc) ==
    IF s = <<>> THEN acc
    ELSE ParseDigits(Tail(s), acc * 10 + DigitVal(Head(s)))

(* s.parse::<u16>(): an optional "+", then one or more digits, in range.   *)
U16Deserialize(s) ==
    LET body == IF s # <<>> /\ Head(s) = "+" THEN Tail(s) ELSE s
    IN  IF body = <<>> THEN Err("cannot parse integer from empty string")
        ELSE IF \E i \in 1..Len(body) : ~IsDigit(body[i])
             THEN Err("invalid digit found in string")
        ELSE IF ParseDigits(body, 0) > U16Max
             THEN Err("number too large to fit in target type")
        ELSE Ok(ParseDigits(body, 0))

RECURSIVE U16Serialize(_)
U16Serialize(n) ==
    IF n < 10 THEN <<Digits[n + 1]>>
    ELSE U16Serialize(n \div 10) \o <<Digits[(n % 10) + 1]>>

ToAsciiLowercaseChar(c) ==
    CASE c = "T" -> "t"
      [] c = "R" -> "r"
      [] c = "U" -> "u"
      [] c = "E" -> "e"
      [] c = "F" -> "f"
      [] c = "A" -> "a"
      [] c = "L" -> "l"
      [] c = "S" -> "s"
      [] c = "X" -> "x"
      [] OTHER -> c

ToAsciiLowercase(s) == [i \in 1..Len(s) |-> ToAsciiLowercaseChar(s[i])]

BoolSerialize(b) == IF b THEN <<"1">> ELSE <<"0">>

(* A variant of the conversion that compares the string as it is given.    *)
BoolDeserialize_exact(s0) ==
    LET s == s0
    IN  IF s = <<"1">> \/ s = <<"t", "r", "u", "e">> THEN Ok(TRUE)
        ELSE IF s = <<"0">> \/ s = <<"f", "a", "l", "s", "e">> THEN Ok(FALSE)
        ELSE Err("Cannot parse into a boolean")

BoolDeserialize(s0) ==
    LET s == ToAsciiLowercase(s0)
    IN  IF s = <<"1">> \/ s = <<"t", "r", "u", "e">> THEN Ok(TRUE)
        ELSE IF s = <<"0">> \/ s = <<"f", "a", "l", "s", "e">> THEN Ok(FALSE)
        ELSE Err("Cannot parse into a boolean")

StringSerialize(s) == s

StringDeserialize(s) == Ok(s)

(* <T as XmlValue>::serialize / deserialize, by the scalar type's name.    *)
(* xml_serde_enum!: the pairs `ident => literal` of an enum, as declared.   *)
(* T is the enum of xml_serde_enum_test.                                   *)
SerdeEnumPairs(E) ==
    CASE E = "T" -> <<<<"A", <<"a">>>>, <<"B", <<"b">>>>, <<"C", <<"c">>>>>>

(* A variant of serialize that writes the first literal for every variant. *)
SerdeEnumSerialize_first(E, v) == SerdeEnumPairs(E)[1][2]

(* xml_serde_enum!: serialize, `Self::$f => String::from($s)`              *)
SerdeEnumSerialize(E, v) ==
    SerdeEnumPairs(E)[CHOOSE i \in 1..Len(SerdeEnumPairs(E)) : SerdeEnumPairs(E)[i][1] = v][2]

(* A variant of deserialize that takes the first variant for a string that *)
(* is not declared.                                                        *)
SerdeEnumDeserialize_lenient(E, s) ==
    IF \E i \in 1..Len(SerdeEnumPairs(E)) : SerdeEnumPairs(E)[i][2] = s
    THEN Ok(SerdeEnumPairs(E)[CHOOSE i \in 1..Len(SerdeEnumPairs(E)) :
                                 /\ SerdeEnumPairs(E)[i][2] = s
                                 /\ \A j \in 1..(i - 1) : SerdeEnumPairs(E)[j][2] # s][1])
    ELSE Ok(SerdeEnumPairs(E)[1][1])

(* xml_serde_enum!: deserialize, the first arm `$s => Ok(Self::$f)` whose   *)
(* literal is the string, and `_ => Err(String::from(""))`.                *)
SerdeEnumDeserialize(E, s) ==
    IF \E i \in 1..Len(SerdeEnumPairs(E)) : SerdeEnumPairs(E)[i][2] = s
    THEN Ok(SerdeEnumPairs(E)[CHOOSE i \in 1..Len(SerdeEnumPairs(E)) :
                                 /\ SerdeEnumPairs(E)[i][2] = s
                                 /\ \A j \in 1..(i - 1) : SerdeEnumPairs(E)[j][2] # s][1])
    ELSE Err("")

ValueSerialize(t, v) ==
    CASE t = "u16" -> U16Serialize(v)
      [] t = "bool" -> BoolSerialize(v)
      [] t = "String" -> StringSerialize(v)
      [] t = "T" -> SerdeEnumSerialize(t, v)

ValueDeserialize(t, s) ==
    CASE t = "u16" -> U16Deserialize(s)
      [] t = "bool" -> BoolDeserialize(s)
      [] t = "String" -> StringDeserialize(s)
      [] t = "T" -> SerdeEnumDeserialize(t, s)

IsWhitespace(c) == c = " "

RECURSIVE TrimStart(_)
TrimStart(s) ==
    IF s # <<>> /\ IsWhitespace(Head(s)) THEN TrimStart(Tail(s)) ELSE s

RECURSIVE TrimEnd(_)
TrimEnd(s) ==
    IF s # <<>> /\ IsWhitespace(s[Len(s)])
    THEN TrimEnd(SubSeq(s, 1, Len(s) - 1))
    ELSE s

(* str::trim *)
Trim(s) == TrimEnd(TrimStart(s))

----------------------------------------------------------------------------
(* quick_xml events.  One record shape for every kind, so that any two     *)
(* events can be compared.                                                 *)

Start(name, attrs) == [k |-> "Start", name |-> name, attrs |-> attrs, text |-> <<>>]

Empty(name, attrs) == [k |-> "Empty", name |-> name, attrs |-> attrs, text |-> <<>>]

End(name) == [k |-> "End", name |-> name, attrs |-> <<>>, text |-> <<>>]

Text(t) == [k |-> "Text", name |-> "", attrs |-> <<>>, text |-> t]

(* Event::Decl(BytesDecl::new(version, encoding, standalone))              *)
BytesDecl(version, encoding, standalone) ==
    [k |-> "Decl", name |-> "",
     attrs |-> <<<<"version", version>>, <<"encoding", encoding>>,
                 <<"standalone", standalone>>>>,
     text |-> <<>>]

Decl == BytesDecl(<<"1", ".", "0">>, <<"U", "T", "F", "-", "8">>, <<"y", "e", "s">>)

Eof == [k |-> "Eof", name |-> "", attrs |-> <<>>, text |-> <<>>]

(* Err(_) of Reader::read_event_into: the reader reports a read error.     *)
ReadErr == [k |-> "Err", name |-> "", attrs |-> <<>>, text |-> <<>>]

(* Reader::read_event_into on the stream d with p events already read:     *)
(* the next event, and Eof from the end of the input on.                   *)
ReadEvent(d, p) == IF p < Len(d) THEN d[p + 1] ELSE Eof

Advance(d, p) == IF p < Len(d) THEN p + 1 ELSE p

(* What a reader yields for the text a writer produced from the events w:  *)
(* a text event of no characters leaves no trace in the text, and text     *)
(* events written one after the other read back as one.                    *)
RECURSIVE ReadBack(_)
ReadBack(w) ==
    IF w = <<>> THEN <<>>
    ELSE IF Head(w).k = "Text" /\ Head(w).text = <<>> THEN ReadBack(Tail(w))
    ELSE LET rest == ReadBack(Tail(w))
         IN  IF Head(w).k = "Text" /\ rest # <<>> /\ Head(rest).k = "Text"
             THEN <<Text(Head(w).text \o Head(rest).text)>> \o Tail(rest)
             ELSE <<Head(w)>> \o rest

----------------------------------------------------------------------------
(* The schema: what Container::from_ast reads from a type's declaration    *)
(* and its #[xmlserde(...)] attributes (src/derives/src/container.rs).     *)
(* An Option is a sequence of at most one element, a Vec is a sequence.    *)

None == <<>>

Some(v) == <<v>>

(* StructField: ty is the EleType, generic one of "Vec", "Opt", "None",    *)
(* t the type inside the generic, default the value of the default         *)
(* provider when one is declared.                                          *)
Field(ident, ty, name, generic, t, default, skip) ==
    [ident |-> ident, ty |-> ty, name |-> name, generic |-> generic,
     t |-> t, default |-> default, skip_serializing |-> skip]

Attr(ident, name, generic, t, default) ==
    Field(ident, "Attr", name, generic, t, default, FALSE)

ChildF(ident, name, generic, t, default) ==
    Field(ident, "Child", name, generic, t, default, FALSE)

SkippedChild(ident, name, generic, t) ==
    Field(ident, "Child", name, generic, t, None, TRUE)

TextF(ident, generic, t, default) ==
    Field(ident, "Text", "", generic, t, default, FALSE)

Sfc(ident, name) == Field(ident, "SelfClosedChild", name, "None", "bool", None, FALSE)

Untag(ident, generic, t) == Field(ident, "Untag", "", generic, t, None, FALSE)

UntaggedStructF(ident, generic, t) ==
    Field(ident, "UntaggedStruct", "", generic, t, None, FALSE)

Struct(rt, fields, deny) ==
    [kind |-> "struct", root |-> rt, struct_fields |-> fields,
     enum_variants |-> <<>>, with_ns |-> None, custom_ns |-> <<>>,
     deny_unknown |-> deny]

StructNs(rt, fields, deny, ns, cns) ==
    [kind |-> "struct", root |-> rt, struct_fields |-> fields,
     enum_variants |-> <<>>, with_ns |-> ns, custom_ns |-> cns,
     deny_unknown |-> deny]

(* EnumVariant: ty is the payload type, None for a unit variant.           *)
Variant(ident, name, ele_type, ty) ==
    [ident |-> ident, name |-> name, ele_type |-> ele_type, ty |-> ty]

Enum(variants) ==
    [kind |-> "enum", root |-> None, struct_fields |-> <<>>,
     enum_variants |-> variants, with_ns |-> None, custom_ns |-> <<>>,
     deny_unknown |-> FALSE]

UnparsedType ==
    [kind |-> "unparsed", root |-> None, struct_fields |-> <<>>,
     enum_variants |-> <<>>, with_ns |-> None, custom_ns |-> <<>>,
     deny_unknown |-> FALSE]

default_age == 12

(* The types of the crate's tests (src/tests/lib.rs), and records of the   *)
(* same kinds with one more field where a test's record has too few to     *)
(* tell two behaviours apart.                                              *)
Container(T) ==
    CASE T = "Child" ->                       \* scf_and_child_test
           Struct(None, <<Attr("age", "age", "None", "u16", None)>>, FALSE)
      [] T = "Person" ->                      \* scf_and_child_test
           Struct(Some("Person"),
                  <<Sfc("lefty", "lefty"),
                    ChildF("c", "c", "None", "Child", None)>>, FALSE)
      [] T = "PersonOptAttr" ->               \* serialize_opt_attr
           Struct(Some("Person"),
                  <<Attr("age", "age", "Opt", "u16", None)>>, FALSE)
      [] T = "PersonDefault" ->               \* serialize_skip_default
           Struct(Some("Person"),
                  <<Attr("age", "age", "None", "u16", Some(default_age)),
                    TextF("name", "None", "String", None)>>, FALSE)
      [] T = "Pet" ->                         \* test_unknown_fields_in_struct_accept_unknown_field
           Struct(Some("pet"),
                  <<Attr("name", "name", "None", "String", None)>>, FALSE)
      [] T = "PetDeny" ->                     \* test_unknown_fields_in_struct_deny_unknown_field
           Struct(Some("pet"),
                  <<Attr("name", "name", "None", "String", None)>>, TRUE)
      [] T = "Owner" ->                       \* a record with children, unknown fields accepted
           Struct(Some("owner"),
                  <<Attr("name", "name", "Opt", "String", None),
                    Sfc("lefty", "lefty"),
                    ChildF("c", "c", "Opt", "Child", None)>>, FALSE)
      [] T = "OwnerDeny" ->                   \* the same record, deny_unknown_fields
           Struct(Some("owner"),
                  <<Attr("name", "name", "Opt", "String", None),
                    Sfc("lefty", "lefty"),
                    ChildF("c", "c", "Opt", "Child", None)>>, TRUE)
      [] T = "TestA" ->                       \* unparsed_serde_test
           Struct(Some("TestA"),
                  <<ChildF("others", "others", "None", "Unparsed", None)>>, FALSE)
      [] T = "Unparsed" -> UnparsedType
      [] T = "Astruct" ->                     \* untag_serde_test
           Struct(None, <<Attr("a_attr1", "aAttr", "None", "u16", None)>>, FALSE)
      [] T = "Bstruct" ->
           Struct(None, <<Attr("b_attr1", "bAttr", "None", "u16", None)>>, FALSE)
      [] T = "EnumA" ->
           Enum(<<Variant("A1", "a", "Child", Some("Astruct")),
                  Variant("B1", "b", "Child", Some("Bstruct"))>>)
      [] T = "EnumB" ->                       \* the variants of EnumA, declared in reverse
           Enum(<<Variant("B1", "b", "Child", Some("Bstruct")),
                  Variant("A1", "a", "Child", Some("Astruct"))>>)
      [] T = "RootRev" ->
           Struct(Some("Root"), <<Untag("dummy", "None", "EnumB")>>, FALSE)
      [] T = "Root" ->                        \* untag_serde_test
           Struct(Some("Root"), <<Untag("dummy", "None", "EnumA")>>, FALSE)
      [] T = "RootVec" ->                     \* vec_untag_serde_test
           Struct(Some("Root"), <<Untag("dummy", "Vec", "EnumA")>>, FALSE)
      [] T = "RootOpt" ->                     \* option_untag_serde_test
           Struct(Some("Root"), <<Untag("dummy", "Opt", "EnumA")>>, FALSE)
      [] T = "A" ->                           \* test_de_untagged_struct
           Struct(None, <<Attr("attr1", "attr1", "None", "u16", None)>>, FALSE)
      [] T = "C" ->
           Struct(None, <<Attr("attr2", "attr2", "None", "u16", None)>>, FALSE)
      [] T = "Bar" ->
           Struct(None, <<ChildF("a", "a", "None", "A", None),
                          ChildF("c", "c", "None", "C", None)>>, FALSE)
      [] T = "Foo" ->
           Struct(Some("foo"), <<UntaggedStructF("bar", "None", "Bar")>>, FALSE)
      [] T = "BarRev" ->                      \* the children of Bar, declared c then a
           Struct(None, <<ChildF("c", "c", "None", "C", None),
                          ChildF("a", "a", "None", "A", None)>>, FALSE)
      [] T = "FooRev" ->
           Struct(Some("foo"), <<UntaggedStructF("bar", "None", "BarRev")>>, FALSE)
      [] T = "BarOpt" ->                      \* an absorbing struct of optional children
           Struct(None, <<ChildF("a", "a", "Opt", "A", None),
                          ChildF("b", "b", "Opt", "C", None),
                          ChildF("c", "c", "Opt", "C", None)>>, FALSE)
      [] T = "Disp" ->                        \* every role of child, tags shared
           Struct(Some("d"),
                  <<UntaggedStructF("bar", "Opt", "BarOpt"),
                    Untag("u", "Opt", "EnumA"),
                    ChildF("a", "a", "Opt", "A", None)>>, FALSE)
      [] T = "Arity" ->                       \* a child of every arity
           Struct(Some("r"),
                  <<ChildF("v", "v", "Vec", "Child", None),
                    ChildF("o", "o", "Opt", "Child", None),
                    ChildF("b", "b", "None", "Child", None)>>, FALSE)
      [] T = "FooOption" ->
           Struct(Some("foo"), <<UntaggedStructF("bar", "Opt", "Bar")>>, FALSE)
      [] T = "TextSpan" ->                    \* test_untag_enum_vec_and_text
           Struct(None, <<TextF("t", "None", "String", None)>>, FALSE)
      [] T = "PersonNs" ->                    \* serialize_with_ns
           StructNs(Some("Person"),
                    <<Attr("age", "age", "None", "u16", None),
                      TextF("name", "None", "String", None)>>, FALSE,
                    Some(<<"n", "s">>), <<>>)
      [] T = "ChildNs" ->                     \* custom_ns_test
           StructNs(Some("Child"),
                    <<Attr("age", "age", "None", "u16", None)>>, FALSE,
                    None, <<<<"a", <<"c">>>>>>)
      [] T = "ChildNsDeny" ->                 \* the same record, deny_unknown_fields
           StructNs(Some("Child"),
                    <<Attr("age", "age", "None", "u16", None)>>, TRUE,
                    None, <<<<"a", <<"c">>>>>>)
      [] T = "PetNs" ->                       \* a default namespace on attributes only
           StructNs(Some("pet"),
                    <<Attr("name", "name", "None", "String", None)>>, FALSE,
                    Some(<<"n", "s">>), <<>>)
      [] T = "PetNsDeny" ->
           StructNs(Some("pet"),
                    <<Attr("name", "name", "None", "String", None)>>, TRUE,
                    Some(<<"n", "s">>), <<>>)
      [] T = "NsBoth" ->                      \* a default and a prefixed namespace
           StructNs(Some("Person"),
                    <<Attr("age", "age", "Opt", "u16", None),
                      Attr("name", "name", "Opt", "String", None)>>, FALSE,
                    Some(<<"n">>), <<<<"p", <<"q">>>>>>)
      [] T = "NsBothDeny" ->
           StructNs(Some("Person"),
                    <<Attr("age", "age", "Opt", "u16", None),
                      Attr("name", "name", "Opt", "String", None)>>, TRUE,
                    Some(<<"n">>), <<<<"p", <<"q">>>>>>)
      [] T = "AStruct" ->                     \* ser_opt_text
           Struct(Some("ttt"), <<TextF("text", "Opt", "String", None)>>, FALSE)
      [] T = "Num" ->                         \* a text field of a numeric type
           Struct(Some("num"), <<TextF("v", "None", "u16", None)>>, FALSE)
      [] T = "Namespace" ->                   \* default_for_child, and a flag
           Struct(Some("namespace"),
                  <<Sfc("flag", "flag"),
                    ChildF("properties", "properties", "None", "Child",
                           Some([age |-> default_age]))>>, FALSE)
      [] T = "Mixed" ->                       \* every role, declared out of writing order
           StructNs(Some("m"),
                    <<Untag("u", "Opt", "EnumA"),
                      ChildF("d", "d", "Opt", "Child", None),
                      Attr("y", "y", "Opt", "bool", None),
                      ChildF("c", "c", "Opt", "Child", None),
                      Sfc("f", "f"),
                      Attr("x", "x", "Opt", "bool", None)>>, FALSE,
                    Some(<<"n">>), <<<<"p", <<"q">>>>>>)
      [] T = "Type" ->                        \* test_untag_enum_no_type_child_and_text
           Struct(None, <<Attr("name", "name", "None", "String", None)>>, FALSE)
      [] T = "ParameterType" ->
           Enum(<<Variant("VarArgs", "varargs", "Child", None),
                  Variant("Type", "type", "Child", Some("Type")),
                  Variant("Text", "", "Text", Some("String"))>>)
      [] T = "Parameter" ->
           Struct(Some("parameter"), <<Untag("ty", "None", "ParameterType")>>, FALSE)
      [] T = "Holder" ->                      \* a child of every kind of type
           Struct(Some("h"),
                  <<ChildF("e", "dummy", "Opt", "ParameterType", None),
                    ChildF("others", "others", "Opt", "Unparsed", None),
                    ChildF("t", "type", "Opt", "Type", None)>>, FALSE)
      [] T = "Skipping" ->                    \* children marked skip_serializing
           Struct(Some("s"),
                  <<Attr("age", "age", "Opt", "u16", None),
                    SkippedChild("c", "c", "Opt", "Child"),
                    SkippedChild("v", "v", "Vec", "Child"),
                    ChildF("o", "o", "Opt", "Child", None)>>, FALSE)
      [] T = "Unskipped" ->                   \* the same record without them
           Struct(Some("s"),
                  <<Attr("age", "age", "Opt", "u16", None),
                    ChildF("o", "o", "Opt", "Child", None)>>, FALSE)
      [] T = "Inits" ->                       \* a field of every initial value
           Struct(Some("i"),
                  <<Attr("age", "age", "None", "u16", Some(default_age)),
                    Attr("name", "name", "Opt", "String", None),
                    ChildF("v", "v", "Vec", "Child", None),
                    ChildF("o", "o", "Opt", "Child", None)>>, FALSE)
      [] T = "Note" ->                        \* a text field with a default provider
           Struct(Some("note"), <<TextF("v", "None", "String", Some(<<"x">>))>>, FALSE)
      [] T = "Bar52" ->                       \* test_issue_52: Bar
           Struct(None, <<>>, FALSE)
      [] T = "Foo52" ->                       \* test_issue_52: Foo
           Struct(None, <<ChildF("bar", "Bar", "None", "Bar52", None)>>, FALSE)
      [] T = "Wrapper" ->                     \* test_issue_52: Wrapper<Foo>
           Struct(Some("root"),
                  <<Attr("header", "header", "None", "String", None),
                    Untag("body", "None", "Foo52")>>, FALSE)
      [] T = "WrapperBar" ->                  \* test_issue_52: Wrapper<Bar>
           Struct(Some("root"),
                  <<Attr("header", "header", "None", "String", None),
                    Untag("body", "None", "Bar52")>>, FALSE)
      [] T = "FooFlag" ->                     \* a flag beside an untagged struct
           Struct(Some("foo"),
                  <<Sfc("flag", "flag"),
                    UntaggedStructF("bar", "None", "Bar")>>, FALSE)
      [] T = "TextPContent" ->                \* test_untag_enum_vec_and_text
           Enum(<<Variant("Text", "", "Text", Some("String")),
                  Variant("TextSpan", "text:span", "Child", Some("TextSpan"))>>)
      [] T = "TextP" ->
           Struct(Some("text:p"), <<Untag("text_p_content", "Vec", "TextPContent")>>, FALSE)
      [] T = "TextQContent" ->                \* a text variant and a child that may be empty
           Enum(<<Variant("Text", "", "Text", Some("String")),
                  Variant("Span", "span", "Child", Some("AStruct"))>>)
      [] T = "TextQ" ->
           Struct(Some("q"), <<Untag("content", "Vec", "TextQContent")>>, FALSE)
      [] T = "TextPair" ->                    \* two untagged enum fields that take text
           Struct(Some("pair"),
                  <<Untag("head", "Vec", "TextPContent"),
                    Untag("tail", "Vec", "TextPContent")>>, FALSE)

IsScalar(t) == t \in {"u16", "bool", "String", "T"}

(* Container::is_enum *)
is_enum(T) == Len(Container(T).enum_variants) > 0

(* let r = v; K(r): the value of a call, named once and computed once (as  *)
(* the element of a set it is a value, in the evaluation of ENABLED too).  *)
Bind(v, K(_)) == CHOOSE r \in {K(x) : x \in {v}} : TRUE

(* FieldsSummary::from_fields: the fields by role, each in declaration     *)
(* order; text is the last field declared as text.                         *)
FieldsSummary(T) ==
    Bind(Container(T).struct_fields, LAMBDA fs :
        [children |-> SelectSeq(fs, LAMBDA f : f.ty = "Child"),
         text |-> Bind(SelectSeq(fs, LAMBDA f : f.ty = "Text"), LAMBDA texts :
                      IF texts = <<>> THEN None ELSE Some(texts[Len(texts)])),
         attrs |-> SelectSeq(fs, LAMBDA f : f.ty = "Attr"),
         self_closed_children |-> SelectSeq(fs, LAMBDA f : f.ty = "SelfClosedChild"),
         untagged_enums |-> SelectSeq(fs, LAMBDA f : f.ty \in {"Untag", "UntaggedEnum"}),
         untagged_structs |-> SelectSeq(fs, LAMBDA f : f.ty = "UntaggedStruct")])

(* StructField::is_required *)
is_required(f) ==
    IF f.ty \in {"Untag", "UntaggedEnum"}
    THEN f.generic = "None"
    ELSE f.default = None /\ f.generic = "None" /\ f.ty # "SelfClosedChild"

RECURSIVE FlattenSeq(_)
FlattenSeq(ss) == IF ss = <<>> THEN <<>> ELSE Head(ss) \o FlattenSeq(Tail(ss))

(* __get_children_tags: the derived one for a struct with children or      *)
(* untagged enums and for an enum; the trait's default (no tag) otherwise. *)
RECURSIVE get_children_tags(_)
get_children_tags(T) ==
    Bind(Container(T), LAMBDA c :
        IF c.kind = "enum"
        THEN Bind(SelectSeq(c.enum_variants, LAMBDA v : v.ele_type = "Child"), LAMBDA vs :
                 [i \in 1..Len(vs) |-> vs[i].name])
        ELSE IF c.kind = "struct"
        THEN Bind(FieldsSummary(T), LAMBDA s :
                 IF Len(s.children) > 0 \/ Len(s.untagged_enums) > 0
                 THEN [i \in 1..Len(s.children) |-> s.children[i].name]
                      \o FlattenSeq([i \in 1..Len(s.untagged_enums) |->
                                       get_children_tags(s.untagged_enums[i].t)])
                 ELSE <<>>)
        ELSE <<>>)

Contains(s, x) == \E i \in 1..Len(s) : s[i] = x

----------------------------------------------------------------------------
(* Unparsed (src/src/lib.rs).  A value is [data, attrs]: the captured      *)
(* events and the attributes as (key, value) pairs.                        *)

(* What a call leaves: st is "ok" when it returned the value v[1] (Ok(v)   *)
(* from an entry point), "err" when an entry point returned Err(msg),      *)
(* "panic" when the call panicked with msg; pos is the number of events    *)
(* the reader has yielded.  A message is a sequence of strings.            *)
Returned(v, p) == [st |-> "ok", v |-> <<v>>, pos |-> p, msg |-> <<>>]

Panicked(m, p) == [st |-> "panic", v |-> <<>>, pos |-> p, msg |-> m]

Failed(m, p) == [st |-> "err", v |-> <<>>, pos |-> p, msg |-> m]

(* A variant of Unparsed::serialize that always writes the start and the   *)
(* end event.                                                              *)
UnparsedSerialize_paired(u, tag) ==
    <<Start(tag, u.attrs)>> \o u.data \o <<End(tag)>>

(* impl XmlSerialize for Unparsed *)
UnparsedSerialize(u, tag) ==
    IF Len(u.data) > 0
    THEN <<Start(tag, u.attrs)>> \o u.data \o <<End(tag)>>
    ELSE <<Empty(tag, u.attrs)>>

(* The loop of Unparsed::deserialize: every event up to the first end      *)
(* event named tag, Eof or a read error is pushed to data.                 *)
RECURSIVE UnparsedLoop(_, _, _, _)
UnparsedLoop(tag, d, p, data) ==
    LET ev == ReadEvent(d, p)
        q == Advance(d, p)
    IN  IF ev.k = "End" /\ ev.name = tag THEN [data |-> data, pos |-> q]
        ELSE IF ev.k = "Eof" THEN [data |-> data, pos |-> q]
        ELSE IF ev.k = "Err" THEN [data |-> data, pos |-> q]
        ELSE UnparsedLoop(tag, d, q, Append(data, ev))

(* impl XmlDeserialize for Unparsed: deserialize *)
UnparsedDeserialize(tag, d, p, attrs, is_empty) ==
    IF is_empty
    THEN Returned([data |-> <<>>, attrs |-> attrs], p)
    ELSE Bind(UnparsedLoop(tag, d, p, <<>>), LAMBDA r :
             Returned([data |-> r.data, attrs |-> attrs], r.pos))

----------------------------------------------------------------------------
(* The code that #[derive(XmlDeserialize)] generates (src/derives/src/     *)
(* de.rs), as a function of the schema.  The local variables of a struct's *)
(* deserialize are loc (one per field) and arr (the <field>_unparseds      *)
(* array of each untagged struct field).                                   *)

FirstIdx(s, P(_)) ==
    IF \E i \in 1..Len(s) : P(s[i])
    THEN CHOOSE i \in 1..Len(s) : P(s[i]) /\ \A j \in 1..(i - 1) : ~P(s[j])
    ELSE 0

Idents(fs) == {fs[i].ident : i \in 1..Len(fs)}

FieldOf(fs, id) == fs[CHOOSE i \in 1..Len(fs) : fs[i].ident = id]

(* get_fields_init: the initial value of a field's local variable.         *)
InitLocal_none(f) ==
    IF f.ty = "SelfClosedChild" THEN FALSE
    ELSE IF f.generic = "Vec" THEN <<>>
    ELSE None

InitLocal(f) ==
    IF f.ty = "SelfClosedChild" THEN FALSE
    ELSE IF f.default # None THEN f.default[1]
    ELSE IF f.generic = "Vec" THEN <<>>
    ELSE None

get_fields_init(T) ==
    Bind(Container(T).struct_fields, LAMBDA fs :
        [loc |-> [id \in Idents(fs) |-> InitLocal(FieldOf(fs, id))],
         arr |-> [id \in Idents(SelectSeq(fs, LAMBDA f : f.ty = "UntaggedStruct"))
                     |-> <<>>]])

Continue(loc, arr, p) == [st |-> "ok", loc |-> loc, arr |-> arr, pos |-> p, msg |-> <<>>]

Abort(m, loc, arr, p) == [st |-> "panic", loc |-> loc, arr |-> arr, pos |-> p, msg |-> <<m>>]

(* The panic of a nested call, unwinding through this one.                 *)
Unwind(r, loc, arr) ==
    [st |-> "panic", loc |-> loc, arr |-> arr, pos |-> r.pos, msg |-> r.msg]

(* A variant of WrapChild that puts a new element of a Vec in front.       *)
WrapChild_front(f, old, v) ==
    IF f.generic = "Vec" THEN <<v>> \o old
    ELSE IF f.generic = "Opt" THEN Some(v)
    ELSE IF is_required(f) THEN Some(v)
    ELSE v

(* A variant of WrapChild that keeps the first value of an optional or a   *)
(* bare field.                                                             *)
WrapChild_keep(f, old, v) ==
    IF f.generic = "Vec" THEN Append(old, v)
    ELSE IF f.generic = "Opt" THEN IF old # None THEN old ELSE Some(v)
    ELSE IF is_required(f) THEN IF old # None THEN old ELSE Some(v)
    ELSE v

(* How a value is stored in the local of a field, by the field's arity.    *)
WrapChild(f, old, v) ==
    IF f.generic = "Vec" THEN Append(old, v)
    ELSE IF f.generic = "Opt" THEN Some(v)
    ELSE IF is_required(f) THEN Some(v)
    ELSE v

(* A variant of attr_match_branch that keeps the field's initial value     *)
(* when the conversion fails.                                              *)
attr_match_branch_keep(f, loc, arr, value, p) ==
    LET r == ValueDeserialize(f.t, value)
    IN  IF r.ok
        THEN Continue([loc EXCEPT ![f.ident] =
                          IF f.generic = "Opt" \/ is_required(f)
                          THEN Some(r.v[1]) ELSE r.v[1]], arr, p)
        ELSE Continue(loc, arr, p)

(* attr_match_branch *)
attr_match_branch(f, loc, arr, value, p) ==
    LET r == ValueDeserialize(f.t, value)
    IN  IF r.ok
        THEN Continue([loc EXCEPT ![f.ident] =
                          IF f.generic = "Opt" \/ is_required(f)
                          THEN Some(r.v[1]) ELSE r.v[1]], arr, p)
        ELSE Abort(IF f.generic = "Opt" THEN "deserialize failed in attr opt"
                   ELSE "deserialize failed in attr", loc, arr, p)

(* encounter_unknown: a panic under deny_unknown_fields, nothing otherwise *)
encounter_unknown(T, loc, arr, p) ==
    IF Container(T).deny_unknown
    THEN Abort("encoutnering unknown field", loc, arr, p)
    ELSE Continue(loc, arr, p)

(* _attrs_.into_iter().for_each(...): every attribute of the element, in   *)
(* order, against the attribute fields in declaration order.               *)
RECURSIVE ReadAttrs(_, _, _, _, _, _)
ReadAttrs(T, attrs, i, loc, arr, p) ==
    IF i > Len(attrs) THEN Continue(loc, arr, p)
    ELSE Bind(FieldsSummary(T).attrs, LAMBDA fa :
         Bind(FirstIdx(fa, LAMBDA f : f.name = attrs[i][1]), LAMBDA k :
         Bind(IF k # 0
              THEN attr_match_branch(fa[k], loc, arr, attrs[i][2], p)
              ELSE encounter_unknown(T, loc, arr, p), LAMBDA r :
             IF r.st = "panic" THEN r
             ELSE ReadAttrs(T, attrs, i + 1, r.loc, r.arr, p))))

(* text_match_branch: no test for blank content precedes the conversion.   *)
text_match_branch(f, loc, arr, text, p) ==
    LET r == ValueDeserialize(f.t, text)
    IN  IF r.ok
        THEN Continue([loc EXCEPT ![f.ident] =
                          IF is_required(f) \/ f.generic = "Opt"
                          THEN Some(r.v[1]) ELSE r.v[1]], arr, p)
        ELSE Abort("deserialize failed in text element", loc, arr, p)

(* __deserialize_from_text: Some(variant) for an enum with a text variant  *)
(* (the conversion is unwrapped), None for every other type.               *)
deserialize_from_text(T, s) ==
    Bind(Container(T).enum_variants, LAMBDA vs :
    Bind(FirstIdx(vs, LAMBDA v : v.ele_type = "Text"), LAMBDA k :
        IF k = 0 THEN [st |-> "ok", v |-> None]
        ELSE LET r == ValueDeserialize(vs[k].ty[1], s)
             IN  IF r.ok
                 THEN [st |-> "ok",
                       v |-> Some([ident |-> vs[k].ident, payload |-> Some(r.v[1])])]
                 ELSE [st |-> "panic", v |-> None]))

(* untag_text_enum_branches: the text is offered to every untagged enum    *)
(* field in turn, and every field whose type accepts it is assigned.       *)
RECURSIVE untag_text_enum_branches(_, _, _, _, _, _)
untag_text_enum_branches(untags, i, loc, arr, str, p) ==
    IF i > Len(untags) THEN Continue(loc, arr, p)
    ELSE Bind(untags[i], LAMBDA f :
         Bind(deserialize_from_text(f.t, str), LAMBDA r :
             IF r.st = "panic"
             THEN Abort("called Result::unwrap on an Err value", loc, arr, p)
             ELSE IF r.v = None
             THEN untag_text_enum_branches(untags, i + 1, loc, arr, str, p)
             ELSE untag_text_enum_branches(untags, i + 1,
                      [loc EXCEPT ![f.ident] =
                          IF f.generic = "Vec" THEN Append(loc[f.ident], r.v[1])
                          ELSE Some(r.v[1])], arr, str, p)))

(* The byte order of the tag names of the schema (the Ord of &[u8]).       *)
TagOrder ==
    <<"Person", "Root", "TestA", "a", "b", "c", "foo", "lefty", "others",
      "owner", "pet", "tmptag", "w">>

TagRank(t) == CHOOSE i \in 1..Len(TagOrder) : TagOrder[i] = t

(* <[T]>::binary_search: Ok(index) or Err, by halving [left, right).       *)
RECURSIVE binary_search_by(_, _, _, _)
binary_search_by(tags, t, left, right) ==
    IF left >= right THEN Err("not found")
    ELSE LET mid == left + (right - left) \div 2
             c == TagRank(tags[mid + 1])
         IN  IF c = TagRank(t) THEN Ok(mid)
             ELSE IF c < TagRank(t) THEN binary_search_by(tags, t, mid + 1, right)
             ELSE binary_search_by(tags, t, left, mid)

binary_search(tags, t) == binary_search_by(tags, t, 0, Len(tags))

RECURSIVE Deserialize(_, _, _, _, _, _)
RECURSIVE StructLoop(_, _, _, _, _, _)
RECURSIVE EnumLoop(_, _, _, _)
RECURSIVE deserialize_from_unparsed_array(_, _)
RECURSIVE xml_deserialize_from_reader_with_root(_, _, _, _)

(* A variant of children_match_branch whose untagged enum arms come before *)
(* the arms of the named children.                                         *)
children_match_branch_untag_first(T, ev, d, q, loc, arr) ==
    Bind(FieldsSummary(T), LAMBDA s :
    Bind(FirstIdx(s.children, LAMBDA f : f.name = ev.name), LAMBDA kc :
    Bind(FirstIdx(s.untagged_enums,
                  LAMBDA f : Contains(get_children_tags(f.t), ev.name)), LAMBDA ke :
    Bind(FirstIdx(s.untagged_structs,
                  LAMBDA f : Contains(get_children_tags(f.t), ev.name)), LAMBDA ks :
        IF kc # 0 \/ ke # 0
        THEN Bind(IF ke # 0 THEN s.untagged_enums[ke] ELSE s.children[kc], LAMBDA f :
             Bind(Deserialize(f.t, ev.name, d, q, ev.attrs, ev.k = "Empty"), LAMBDA r :
                 IF r.st = "panic" THEN Unwind(r, loc, arr)
                 ELSE Continue([loc EXCEPT ![f.ident] =
                                   WrapChild(f, loc[f.ident], r.v[1])], arr, r.pos)))
        ELSE IF ks # 0
        THEN Bind(s.untagged_structs[ks], LAMBDA f :
             Bind(UnparsedDeserialize(ev.name, d, q, ev.attrs, ev.k = "Empty"), LAMBDA r :
             Bind(get_children_tags(f.t), LAMBDA tags :
             Bind(binary_search(tags, ev.name), LAMBDA idx :
                 IF ~idx.ok
                 THEN Abort("called Result::unwrap on an Err value", loc, arr, r.pos)
                 ELSE Continue(loc,
                               [arr EXCEPT ![f.ident] =
                                   Append(arr[f.ident], <<tags[idx.v[1] + 1], r.v[1]>>)],
                               r.pos)))))
        ELSE Continue(loc, arr, q)))))

(* children_match_branch, the arms for Event::Empty and Event::Start: the  *)
(* named children, then untag_enums_match_branch, then                     *)
(* untag_structs_match_branch, then the catch-all arm.                     *)
children_match_branch(T, ev, d, q, loc, arr) ==
    Bind(FieldsSummary(T), LAMBDA s :
    Bind(FirstIdx(s.children, LAMBDA f : f.name = ev.name), LAMBDA kc :
    Bind(FirstIdx(s.untagged_enums,
                  LAMBDA f : Contains(get_children_tags(f.t), ev.name)), LAMBDA ke :
    Bind(FirstIdx(s.untagged_structs,
                  LAMBDA f : Contains(get_children_tags(f.t), ev.name)), LAMBDA ks :
        IF kc # 0 \/ ke # 0
        THEN Bind(IF kc # 0 THEN s.children[kc] ELSE s.untagged_enums[ke], LAMBDA f :
             Bind(Deserialize(f.t, ev.name, d, q, ev.attrs, ev.k = "Empty"), LAMBDA r :
                 IF r.st = "panic" THEN Unwind(r, loc, arr)
                 ELSE Continue([loc EXCEPT ![f.ident] =
                                   WrapChild(f, loc[f.ident], r.v[1])], arr, r.pos)))
        ELSE IF ks # 0
        THEN Bind(s.untagged_structs[ks], LAMBDA f :
             Bind(UnparsedDeserialize(ev.name, d, q, ev.attrs, ev.k = "Empty"), LAMBDA r :
             Bind(get_children_tags(f.t), LAMBDA tags :
             Bind(binary_search(tags, ev.name), LAMBDA idx :
                 IF ~idx.ok
                 THEN Abort("called Result::unwrap on an Err value", loc, arr, r.pos)
                 ELSE Continue(loc,
                               [arr EXCEPT ![f.ident] =
                                   Append(arr[f.ident], <<tags[idx.v[1] + 1], r.v[1]>>)],
                               r.pos)))))
        ELSE Continue(loc, arr, q)))))

(* sfc_match_branch *)
sfc_match_branch(f, loc, arr, q) == Continue([loc EXCEPT ![f.ident] = TRUE], arr, q)

(* A variant of match_event whose text arm has no test of the trimmed      *)
(* content.                                                                *)
match_event_untrimmed(T, ev, d, q, loc, arr) ==
    Bind(FieldsSummary(T), LAMBDA s :
    Bind(FirstIdx(s.self_closed_children, LAMBDA f : f.name = ev.name), LAMBDA ksfc :
    Bind(Len(s.children) > 0 \/ Len(s.untagged_enums) > 0
         \/ Len(s.untagged_structs) > 0, LAMBDA has_child_branches :
        IF ev.k = "Empty" /\ ksfc # 0
        THEN sfc_match_branch(s.self_closed_children[ksfc], loc, arr, q)
        ELSE IF has_child_branches /\ ev.k \in {"Empty", "Start"}
        THEN children_match_branch(T, ev, d, q, loc, arr)
        ELSE IF has_child_branches /\ ev.k = "Text"
        THEN untag_text_enum_branches(s.untagged_enums, 1, loc, arr, ev.text, q)
        ELSE IF s.text # None /\ ev.k = "Text"
        THEN text_match_branch(s.text[1], loc, arr, ev.text, q)
        ELSE IF ev.k \in {"Empty", "Start"}
        THEN encounter_unknown(T, loc, arr, q)
        ELSE Continue(loc, arr, q))))

(* The arms of the generated match for an event that is neither the end    *)
(* tag of the record, Eof nor a read error, in their order: the            *)
(* self-closing flags, the arms of children_match_branch (present when the *)
(* struct has a child, an untagged enum or an untagged struct), the text   *)
(* field, encounter_unknown_branch, and the catch-all arm.                 *)
match_event(T, ev, d, q, loc, arr) ==
    Bind(FieldsSummary(T), LAMBDA s :
    Bind(FirstIdx(s.self_closed_children, LAMBDA f : f.name = ev.name), LAMBDA ksfc :
    Bind(Len(s.children) > 0 \/ Len(s.untagged_enums) > 0
         \/ Len(s.untagged_structs) > 0, LAMBDA has_child_branches :
        IF ev.k = "Empty" /\ ksfc # 0
        THEN sfc_match_branch(s.self_closed_children[ksfc], loc, arr, q)
        ELSE IF has_child_branches /\ ev.k \in {"Empty", "Start"}
        THEN children_match_branch(T, ev, d, q, loc, arr)
        ELSE IF has_child_branches /\ ev.k = "Text"
        THEN IF Trim(ev.text) # <<>>
             THEN untag_text_enum_branches(s.untagged_enums, 1, loc, arr, ev.text, q)
             ELSE Continue(loc, arr, q)
        ELSE IF s.text # None /\ ev.k = "Text"
        THEN text_match_branch(s.text[1], loc, arr, ev.text, q)
        ELSE IF ev.k \in {"Empty", "Start"}
        THEN encounter_unknown(T, loc, arr, q)
        ELSE Continue(loc, arr, q))))

(* The loop of a struct's deserialize: it ends at an end tag named as the  *)
(* record's, at Eof and at a read error.                                   *)
StructLoop(T, tag, d, p, loc, arr) ==
    Bind(ReadEvent(d, p), LAMBDA ev :
        IF ev.k = "End" /\ ev.name = tag THEN Continue(loc, arr, Advance(d, p))
        ELSE IF ev.k \in {"Eof", "Err"} THEN Continue(loc, arr, Advance(d, p))
        ELSE Bind(match_event(T, ev, d, Advance(d, p), loc, arr), LAMBDA r :
                 IF r.st = "panic" THEN r
                 ELSE StructLoop(T, tag, d, r.pos, r.loc, r.arr)))

(* get_untagged_struct_fields_result *)
RECURSIVE get_untagged_struct_fields_result(_, _, _, _, _)
get_untagged_struct_fields_result(us, i, loc, arr, p) ==
    IF i > Len(us) THEN Continue(loc, arr, p)
    ELSE IF Len(arr[us[i].ident]) = 0
    THEN get_untagged_struct_fields_result(us, i + 1, loc, arr, p)
    ELSE Bind(deserialize_from_unparsed_array(us[i].t, arr[us[i].ident]), LAMBDA r :
             IF r.st = "panic"
             THEN [st |-> "panic", loc |-> loc, arr |-> arr, pos |-> p, msg |-> r.msg]
             ELSE get_untagged_struct_fields_result(us, i + 1,
                      [loc EXCEPT ![us[i].ident] = Some(r.v[1])], arr, p))

(* A variant of get_result that returns the variables as they are,         *)
(* without unwrapping the required ones.                                   *)
get_result_unchecked(fs, loc, p) == Returned([id \in Idents(fs) |-> loc[id]], p)

(* get_result: ident.unwrap() for a required field, the variable for       *)
(* every other.                                                            *)
get_result(fs, loc, p) ==
    IF \E i \in 1..Len(fs) : is_required(fs[i]) /\ loc[fs[i].ident] = None
    THEN Panicked(<<"called Option::unwrap on a None value">>, p)
    ELSE Returned([id \in Idents(fs) |->
                      IF is_required(FieldOf(fs, id)) THEN loc[id][1] ELSE loc[id]], p)

(* The deserialize of a derived struct (get_de_struct_impl_block).         *)
StructDeserialize(T, tag, d, p, attrs, is_empty) ==
    Bind(get_fields_init(T), LAMBDA i0 :
    Bind(ReadAttrs(T, attrs, 1, i0.loc, i0.arr, p), LAMBDA a :
    Bind(IF a.st = "panic" \/ is_empty THEN a
         ELSE StructLoop(T, tag, d, p, a.loc, a.arr), LAMBDA b :
    Bind(IF b.st = "panic" THEN b
         ELSE get_untagged_struct_fields_result(
                  FieldsSummary(T).untagged_structs, 1, b.loc, b.arr, b.pos), LAMBDA c :
        IF c.st = "panic" THEN Panicked(c.msg, c.pos)
        ELSE get_result(Container(T).struct_fields, c.loc, c.pos)))))

(* children_branches of get_de_enum_impl_block: the arm of one variant.    *)
children_branches(v, d, p, attrs, b) ==
    IF v.ty # None
    THEN Bind(Deserialize(v.ty[1], v.name, d, p, attrs, b), LAMBDA r :
             IF r.st = "panic" THEN r
             ELSE Returned([ident |-> v.ident, payload |-> Some(r.v[1])], r.pos))
    ELSE Returned([ident |-> v.ident, payload |-> None], p)

(* A variant of VariantIdx that takes the first variant declared for any   *)
(* tag of the enum.                                                        *)
VariantIdx_first(T, name) ==
    IF FirstIdx(Container(T).enum_variants,
                LAMBDA v : v.ele_type # "Text" /\ v.name = name) # 0
    THEN 1 ELSE 0

(* The arm of the variant named as the element; 0 when there is none.      *)
VariantIdx(T, name) ==
    FirstIdx(Container(T).enum_variants, LAMBDA v : v.ele_type # "Text" /\ v.name = name)

(* The loop of a derived enum's deserialize: result is never assigned, so  *)
(* leaving the loop ends in result.expect(..) panicking.                   *)
EnumLoop(T, tag, d, p) ==
    Bind(ReadEvent(d, p), LAMBDA ev :
    Bind(VariantIdx(T, ev.name), LAMBDA k :
        IF ev.k = "End" /\ ev.name = tag
        THEN Panicked(<<"did not find any tag">>, Advance(d, p))
        ELSE IF ev.k \in {"Start", "Empty"} /\ k # 0
        THEN children_branches(Container(T).enum_variants[k], d, Advance(d, p),
                               ev.attrs, ev.k = "Empty")
        ELSE IF ev.k \in {"Eof", "Err"}
        THEN Panicked(<<"did not find any tag">>, Advance(d, p))
        ELSE EnumLoop(T, tag, d, Advance(d, p))))

(* The deserialize of a derived enum (get_de_enum_impl_block).             *)
EnumDeserialize(T, tag, d, p, attrs, is_empty) ==
    Bind(VariantIdx(T, tag), LAMBDA k :
        IF k # 0
        THEN children_branches(Container(T).enum_variants[k], d, p, attrs, is_empty)
        ELSE EnumLoop(T, tag, d, p))

(* <T as XmlDeserialize>::deserialize(tag, reader, attrs, is_empty)        *)
Deserialize(T, tag, d, p, attrs, is_empty) ==
    Bind(Container(T).kind, LAMBDA kind :
        CASE kind = "struct" -> StructDeserialize(T, tag, d, p, attrs, is_empty)
          [] kind = "enum" -> EnumDeserialize(T, tag, d, p, attrs, is_empty)
          [] kind = "unparsed" -> UnparsedDeserialize(tag, d, p, attrs, is_empty))

(* A variant of the root scan that looks at one event only.                *)
root_at_first_event(T, d, rt, p) ==
    LET ev == ReadEvent(d, p)
        q == Advance(d, p)
    IN  IF ev.k \in {"Start", "Empty"} /\ ev.name = rt
        THEN Deserialize(T, rt, d, q, ev.attrs, ev.k = "Empty")
        ELSE IF ev.k = "Err" THEN Failed(<<"read error">>, q)
        ELSE Failed(<<"Cannot find the element: ", rt>>, q)

(* xml_deserialize_from_reader_with_root, from the event at p on.          *)
xml_deserialize_from_reader_with_root(T, d, rt, p) ==
    LET ev == ReadEvent(d, p)
        q == Advance(d, p)
    IN  IF ev.k \in {"Start", "Empty"} /\ ev.name = rt
        THEN Deserialize(T, rt, d, q, ev.attrs, ev.k = "Empty")
        ELSE IF ev.k = "Eof" THEN Failed(<<"Cannot find the element: ", rt>>, q)
        ELSE IF ev.k = "Err" THEN Failed(<<"read error">>, q)
        ELSE xml_deserialize_from_reader_with_root(T, d, rt, q)

(* Unparsed::deserialize_to *)
deserialize_to(T, u) ==
    xml_deserialize_from_reader_with_root(
        T, ReadBack(UnparsedSerialize(u, "tmptag")), "tmptag", 0)

(* How the value of one entry is stored in the variable of the child c.    *)
StoreEntry(c, old, v) ==
    IF c.generic = "Vec" THEN Append(old, v)
    ELSE IF c.generic = "Opt" THEN Some(v)
    ELSE IF c.default # None THEN v
    ELSE Some(v)

(* One entry of the array of __deserialize_from_unparsed_array.            *)
RECURSIVE from_unparsed_array_loop(_, _, _, _)
from_unparsed_array_loop(children, array, i, loc) ==
    IF i > Len(array) THEN [st |-> "ok", loc |-> loc, msg |-> <<>>]
    ELSE Bind(FirstIdx(children, LAMBDA c : c.name = array[i][1]), LAMBDA k :
        IF k = 0 THEN from_unparsed_array_loop(children, array, i + 1, loc)
        ELSE Bind(deserialize_to(children[k].t, array[i][2]), LAMBDA r :
            IF r.st # "ok"
            THEN [st |-> "panic", loc |-> loc,
                  msg |-> IF r.st = "panic" THEN r.msg
                          ELSE <<"called Result::unwrap on an Err value">>]
            ELSE from_unparsed_array_loop(children, array, i + 1,
                     [loc EXCEPT ![children[k].ident] =
                         StoreEntry(children[k], loc[children[k].ident], r.v[1])])))

(* __deserialize_from_unparsed_array (get_deserialize_from_unparsed): the  *)
(* derived one for a struct of children only, the trait's otherwise.       *)
deserialize_from_unparsed_array(T, array) ==
    Bind(FieldsSummary(T), LAMBDA s :
        IF ~(Container(T).kind = "struct" /\ Len(s.children) > 0 /\ Len(s.attrs) = 0
             /\ Len(s.self_closed_children) = 0 /\ Len(s.untagged_enums) = 0)
        THEN Panicked(<<"untagged types require having child types only">>, 0)
        ELSE Bind(from_unparsed_array_loop(
                      s.children, array, 1,
                      [id \in Idents(s.children) |-> InitLocal(FieldOf(s.children, id))]),
                  LAMBDA l :
            IF l.st = "panic" THEN Panicked(l.msg, 0)
            ELSE IF \E i \in 1..Len(s.children) :
                        is_required(s.children[i]) /\ l.loc[s.children[i].ident] = None
            THEN Panicked(<<"missing field">>, 0)
            ELSE Returned([id \in Idents(s.children) |->
                              IF is_required(FieldOf(s.children, id))
                              THEN l.loc[id][1] ELSE l.loc[id]], 0)))

(* xml_deserialize_from_reader / xml_deserialize_from_str for the type T   *)
(* over the events the reader yields for the input.                        *)
xml_deserialize_from_reader(T, d) ==
    Bind(Container(T).root, LAMBDA de_root :
        IF de_root = None
        THEN Panicked(<<"expect a root">>, 0)
        ELSE xml_deserialize_from_reader_with_root(T, d, de_root[1], 0))

----------------------------------------------------------------------------
(* The code that #[derive(XmlSerialize)] generates (src/derives/src/       *)
(* ser.rs) and the impls for Option and Vec: the events written.           *)

RECURSIVE Serialize(_, _, _)

(* impl XmlSerialize for Option<T>, for Vec<T>, and a bare T.              *)
SerializeGeneric(f, fv, tag) ==
    IF f.generic = "Vec"
    THEN FlattenSeq([i \in 1..Len(fv) |-> Serialize(f.t, fv[i], tag)])
    ELSE IF f.generic = "Opt"
    THEN IF fv = None THEN <<>> ELSE Serialize(f.t, fv[1], tag)
    ELSE Serialize(f.t, fv, tag)

(* write_ns and write_custom_ns *)
write_ns(T) ==
    Bind(Container(T), LAMBDA c :
        (IF c.with_ns # None THEN <<<<"xmlns", c.with_ns[1]>>>> ELSE <<>>)
        \o [i \in 1..Len(c.custom_ns) |->
               <<"xmlns:" \o c.custom_ns[i][1], c.custom_ns[i][2]>>])

(* build_attr_and_push, for one attribute field *)
build_attr_and_push(f, v) ==
    IF f.generic = "Opt"
    THEN IF v[f.ident] = None THEN <<>>
         ELSE <<<<f.name, ValueSerialize(f.t, v[f.ident][1])>>>>
    ELSE IF f.default # None /\ f.default[1] = v[f.ident] THEN <<>>
    ELSE <<<<f.name, ValueSerialize(f.t, v[f.ident])>>>>

(* init_is_empty: whether a child has something to write.                  *)
child_init(f, v) ==
    IF f.generic = "Vec" THEN Len(v[f.ident]) > 0
    ELSE IF f.generic = "Opt" THEN v[f.ident] # None
    ELSE IF f.default # None THEN v[f.ident] # f.default[1]
    ELSE TRUE

text_init(text, v) ==
    IF text = None THEN FALSE
    ELSE IF text[1].generic = "Opt" THEN v[text[1].ident] # None
    ELSE IF text[1].default = None THEN TRUE
    ELSE v[text[1].ident] # text[1].default[1]

(* A variant of init_is_empty that decides by the fields declared, not by  *)
(* their values.                                                           *)
init_is_empty_static(T, v) ==
    Bind(FieldsSummary(T), LAMBDA s :
        Len(s.children) = 0 /\ Len(s.self_closed_children) = 0 /\ s.text = None
        /\ Len(s.untagged_enums) = 0)

(* init_is_empty: is_empty *)
init_is_empty(T, v) ==
    Bind(FieldsSummary(T), LAMBDA s :
        LET has_untag_fields == Len(s.untagged_enums) > 0
            has_child_to_write ==
                \/ \E i \in 1..Len(s.children) : child_init(s.children[i], v)
                \/ \E i \in 1..Len(s.self_closed_children) :
                       v[s.self_closed_children[i].ident]
                \/ text_init(s.text, v)
        IN  ~has_child_to_write /\ ~has_untag_fields)

(* write_text_or_children: the parts of the body.                          *)
write_text(t, v) ==
    IF t.generic = "Opt"
    THEN IF v[t.ident] = None THEN <<>>
         ELSE <<Text(ValueSerialize(t.t, v[t.ident][1]))>>
    ELSE <<Text(ValueSerialize(t.t, v[t.ident]))>>

write_scf(f, v) == IF v[f.ident] THEN <<Empty(f.name, <<>>)>> ELSE <<>>

write_children(f, v) ==
    IF f.skip_serializing THEN <<>>
    ELSE SerializeGeneric(f, v[f.ident], f.name)

write_untags(f, v) == SerializeGeneric(f, v[f.ident], "")

(* A variant of write_text_or_children that writes the named children      *)
(* before the self-closing flags.                                          *)
write_text_or_children_flags_late(T, v) ==
    Bind(FieldsSummary(T), LAMBDA s :
        IF s.text # None
        THEN write_text(s.text[1], v)
        ELSE FlattenSeq([i \in 1..Len(s.children) |-> write_children(s.children[i], v)])
             \o FlattenSeq([i \in 1..Len(s.self_closed_children) |->
                               write_scf(s.self_closed_children[i], v)])
             \o FlattenSeq([i \in 1..Len(s.untagged_enums) |->
                               write_untags(s.untagged_enums[i], v)]))

(* write_text_or_children *)
write_text_or_children(T, v) ==
    Bind(FieldsSummary(T), LAMBDA s :
        IF s.text # None
        THEN write_text(s.text[1], v)
        ELSE FlattenSeq([i \in 1..Len(s.self_closed_children) |->
                            write_scf(s.self_closed_children[i], v)])
             \o FlattenSeq([i \in 1..Len(s.children) |-> write_children(s.children[i], v)])
             \o FlattenSeq([i \in 1..Len(s.untagged_enums) |->
                               write_untags(s.untagged_enums[i], v)]))

(* The attributes on the element: the namespaces, then the attribute       *)
(* fields in declaration order.                                            *)
write_attrs(T, v) ==
    Bind(FieldsSummary(T).attrs, LAMBDA fa :
        write_ns(T) \o FlattenSeq([i \in 1..Len(fa) |-> build_attr_and_push(fa[i], v)]))

(* write_event: self-closed when is_empty, the body alone under the empty  *)
(* tag, the body between a start and an end tag otherwise.                 *)
write_event(tag, attrs, is_empty, body) ==
    IF is_empty THEN <<Empty(tag, attrs)>>
    ELSE IF tag = "" THEN body
    ELSE <<Start(tag, attrs)>> \o body \o <<End(tag)>>

(* The serialize of a derived struct (get_ser_struct_impl_block).          *)
StructSerialize(T, v, tag) ==
    write_event(tag, write_attrs(T, v), init_is_empty(T, v), write_text_or_children(T, v))

(* The serialize of a derived enum (get_ser_enum_impl_block).              *)
EnumSerialize(T, v, tag) ==
    Bind(Container(T).enum_variants, LAMBDA vs :
    Bind(vs[CHOOSE i \in 1..Len(vs) : vs[i].ident = v.ident], LAMBDA var :
        IF var.ty = None
        THEN IF tag = "" THEN <<Empty(var.name, <<>>)>>
             ELSE <<Start(tag, <<>>), Empty(var.name, <<>>), End(tag)>>
        ELSE IF var.ele_type = "Text"
        THEN <<Text(ValueSerialize(var.ty[1], v.payload[1]))>>
        ELSE Bind(Serialize(var.ty[1], v.payload[1], var.name), LAMBDA body :
                 IF tag = "" THEN body
                 ELSE <<Start(tag, <<>>)>> \o body \o <<End(tag)>>)))

(* <T as XmlSerialize>::serialize(tag, writer) *)
Serialize(T, v, tag) ==
    Bind(Container(T).kind, LAMBDA kind :
        CASE kind = "struct" -> StructSerialize(T, v, tag)
          [] kind = "enum" -> EnumSerialize(T, v, tag)
          [] kind = "unparsed" -> UnparsedSerialize(v, tag))

(* xml_serialize: the events behind the returned string.                   *)
xml_serialize(T, v) == Serialize(T, v, Container(T).root[1])

(* A variant of xml_serialize_with_decl that writes no declaration.        *)
xml_serialize_without_decl(T, v) == Serialize(T, v, Container(T).root[1])

(* xml_serialize_with_decl *)
xml_serialize_with_decl(T, v) == <<Decl>> \o Serialize(T, v, Container(T).root[1])

----------------------------------------------------------------------------
(* The inputs: the events a reader yields for the documents it is given,   *)
(* and the values handed to xml_serialize.                                 *)

MaxLen == 4

MaxLenAccept == 5

MaxLenUnparsed == 6

MaxVec == 2

MaxLenUntag == 5

MaxLenText == 5

MaxLenRoute == 5

(* The longest input given to a root type.                                 *)
DocBound(T) ==
    IF T = "TestA" THEN MaxLenUnparsed
    ELSE IF T \in {"Owner", "OwnerDeny"} THEN MaxLenAccept
    ELSE IF T \in {"Root", "RootRev", "RootVec"} THEN MaxLenUntag
    ELSE IF T \in {"TextP", "TextQ", "TextPair"} THEN MaxLenText
    ELSE IF T \in {"Foo", "FooRev", "Disp", "Arity"} THEN MaxLenRoute
    ELSE MaxLen

NoAttrs == <<>>

AgeAttr(s) == <<<<"age", s>>>>

NameAttr(s) == <<<<"name", s>>>>

AAttr(s) == <<<<"aAttr", s>>>>

Attr1(s) == <<<<"attr1", s>>>>

Attr2(s) == <<<<"attr2", s>>>>

BAttr(s) == <<<<"bAttr", s>>>>

(* The start tags of the inputs given to a root type, as (name, attrs).    *)
StartEvents(T) ==
    CASE T = "Person" -> {<<"Person", NoAttrs>>, <<"w", NoAttrs>>}
      [] T = "PersonDefault" ->
           {<<"Person", NoAttrs>>, <<"Person", AgeAttr(<<"7">>)>>,
            <<"Person", AgeAttr(<<"x">>)>>, <<"w", NoAttrs>>}
      [] T = "Num" -> {<<"num", NoAttrs>>, <<"w", NoAttrs>>}
      [] T \in {"Pet", "PetDeny"} ->
           {<<"pet", NameAttr(<<"x">>)>>, <<"pet", NameAttr(<<"x">>) \o AgeAttr(<<"1">>)>>,
            <<"weight", NoAttrs>>}
      [] T \in {"Owner", "OwnerDeny"} -> {<<"owner", NoAttrs>>, <<"w", NoAttrs>>}
      [] T = "TestA" ->
           {<<"TestA", NoAttrs>>, <<"others", NoAttrs>>, <<"others", AgeAttr(<<"1">>)>>}
      [] T \in {"Root", "RootRev", "RootVec"} ->
           {<<"Root", NoAttrs>>, <<"a", AAttr(<<"3">>)>>}
      [] T = "TextP" -> {<<"text:p", NoAttrs>>, <<"text:span", NoAttrs>>}
      [] T \in {"Foo", "FooRev"} -> {<<"foo", NoAttrs>>, <<"a", Attr1(<<"1">>)>>}
      [] T = "Disp" -> {<<"d", NoAttrs>>}
      [] T = "Arity" -> {<<"r", NoAttrs>>}
      [] T = "TextPair" -> {<<"pair", NoAttrs>>, <<"text:span", NoAttrs>>}
      [] T = "TextQ" -> {<<"q", NoAttrs>>, <<"span", NoAttrs>>}
      [] T = "Namespace" ->
           {<<"namespace", NoAttrs>>, <<"properties", AgeAttr(<<"1">>)>>}
      [] T = "Note" -> {<<"note", NoAttrs>>}
      [] T = "ParameterType" ->
           {<<"varargs", NoAttrs>>, <<"type", NameAttr(<<"n">>)>>, <<"dummy", NoAttrs>>}
      [] T = "Unparsed" -> {<<"others", NoAttrs>>, <<"w", AgeAttr(<<"1">>)>>}
      [] T = "Parameter" ->
           {<<"parameter", NoAttrs>>, <<"type", NameAttr(<<"n">>)>>, <<"varargs", NoAttrs>>}
      [] T = "Holder" ->
           {<<"h", NoAttrs>>, <<"dummy", NoAttrs>>, <<"others", NoAttrs>>,
            <<"type", NameAttr(<<"n">>)>>}
      [] T = "Inits" ->
           {<<"i", NoAttrs>>, <<"i", AgeAttr(<<"7">>)>>, <<"i", NameAttr(<<"x">>)>>}

(* The self-closed tags of the inputs given to a root type.                *)
EmptyEvents(T) ==
    CASE T = "Person" ->
           {<<"Person", NoAttrs>>, <<"c", AgeAttr(<<"1", "2">>)>>, <<"c", AgeAttr(<<"x">>)>>,
            <<"c", NoAttrs>>, <<"lefty", NoAttrs>>, <<"w", NoAttrs>>}
      [] T = "PersonDefault" ->
           {<<"Person", NoAttrs>>, <<"Person", AgeAttr(<<"7">>)>>, <<"w", NoAttrs>>}
      [] T = "Num" -> {<<"num", NoAttrs>>, <<"w", NoAttrs>>}
      [] T \in {"Pet", "PetDeny"} ->
           {<<"pet", NameAttr(<<"x">>)>>, <<"pet", NameAttr(<<"x">>) \o AgeAttr(<<"1">>)>>,
            <<"pet", NoAttrs>>, <<"weight", NoAttrs>>}
      [] T \in {"Owner", "OwnerDeny"} ->
           {<<"c", AgeAttr(<<"1", "2">>)>>, <<"lefty", NoAttrs>>, <<"w", NoAttrs>>,
            <<"owner", AgeAttr(<<"1">>)>>}
      [] T = "TestA" -> {<<"others", NoAttrs>>}
      [] T \in {"Root", "RootRev", "RootVec"} ->
           {<<"a", AAttr(<<"3">>)>>, <<"a", AAttr(<<"0", "3">>)>>, <<"b", BAttr(<<"5">>)>>,
            <<"b", NoAttrs>>, <<"w", NoAttrs>>}
      [] T \in {"TextP", "TextPair"} -> {<<"text:span", NoAttrs>>, <<"w", NoAttrs>>}
      [] T = "TextQ" -> {<<"span", NoAttrs>>, <<"w", NoAttrs>>}
      [] T \in {"Foo", "FooRev"} ->
           {<<"a", Attr1(<<"1">>)>>, <<"c", Attr2(<<"2">>)>>, <<"c", NoAttrs>>,
            <<"w", NoAttrs>>}
      [] T = "Disp" ->
           {<<"a", Attr1(<<"1">>)>>, <<"b", BAttr(<<"5">>)>>, <<"c", Attr2(<<"2">>)>>,
            <<"w", NoAttrs>>}
      [] T = "Arity" ->
           {<<n, AgeAttr(x)>> : n \in {"v", "o", "b"}, x \in {<<"1">>, <<"2">>}}
      [] T = "Namespace" ->
           {<<"namespace", NoAttrs>>, <<"flag", NoAttrs>>,
            <<"properties", AgeAttr(<<"1">>)>>, <<"w", NoAttrs>>}
      [] T = "Note" -> {<<"note", NoAttrs>>, <<"w", NoAttrs>>}
      [] T = "ParameterType" ->
           {<<"varargs", NoAttrs>>, <<"type", NameAttr(<<"n">>)>>, <<"dummy", NoAttrs>>}
      [] T = "Unparsed" -> {<<"others", AgeAttr(<<"1">>)>>, <<"w", NoAttrs>>}
      [] T \in {"Parameter", "Holder"} ->
           {<<"varargs", NoAttrs>>, <<"type", NameAttr(<<"n">>)>>, <<"w", NoAttrs>>}
      [] T = "Inits" ->
           {<<"i", NoAttrs>>, <<"i", NameAttr(<<"x">>)>>, <<"v", AgeAttr(<<"1">>)>>,
            <<"o", AgeAttr(<<"1">>)>>, <<"w", NoAttrs>>}

(* The text contents of the inputs.                                        *)
Texts(T) ==
    IF T = "Num" THEN {<<"x">>, <<"7">>, <<" ">>}
    ELSE IF T \in {"PersonDefault", "TextP", "TextQ", "TextPair"} THEN {<<"x">>, <<" ">>}
    ELSE IF T = "Arity" THEN {}
    ELSE IF T = "Note" THEN {<<"y">>, <<" ">>}
    ELSE {<<"x">>}

(* The names of the elements open after the events of d, innermost last.   *)
RECURSIVE OpenTags(_, _, _)
OpenTags(d, i, open) ==
    IF i > Len(d) THEN open
    ELSE OpenTags(d, i + 1,
             IF d[i].k = "Start" THEN Append(open, d[i].name)
             ELSE IF d[i].k = "End" /\ Len(open) > 0 THEN SubSeq(open, 1, Len(open) - 1)
             ELSE open)

(* The values of a scalar type given to xml_serialize.                     *)
ScalarValues(t) ==
    CASE t = "u16" -> {0, default_age, U16Max}
      [] t = "bool" -> BOOLEAN
      [] t = "String" -> {<<>>, <<"x">>}
      [] t = "T" -> {"A", "B", "C"}

UnparsedValues ==
    {[data |-> dd, attrs |-> aa] :
        dd \in {<<>>, <<Text(<<"x">>)>>, <<Empty("w", NoAttrs)>>,
                <<Start("others", NoAttrs), End("others")>>},
        aa \in {NoAttrs, AgeAttr(<<"1">>), NameAttr(<<"x">>) \o AgeAttr(<<"1">>)}}

(* The values of a type: every combination of the values of its fields.    *)
RECURSIVE Values(_)
RECURSIVE FieldTuples(_, _)
FieldValues(f) ==
    Bind(IF IsScalar(f.t) THEN ScalarValues(f.t) ELSE Values(f.t), LAMBDA b :
        IF f.generic = "Opt" THEN {None} \cup {Some(x) : x \in b}
        ELSE IF f.generic = "Vec" THEN UNION {[1..n -> b] : n \in 0..MaxVec}
        ELSE b)

FieldTuples(fs, i) ==
    IF i > Len(fs) THEN {<<>>}
    ELSE {<<x>> \o t : x \in FieldValues(fs[i]), t \in FieldTuples(fs, i + 1)}

(* The values of an enum variant. *)
VariantValues(var) ==
    IF var.ty = None THEN {[ident |-> var.ident, payload |-> None]}
    ELSE {[ident |-> var.ident, payload |-> Some(x)] :
             x \in IF IsScalar(var.ty[1]) THEN ScalarValues(var.ty[1])
                   ELSE Values(var.ty[1])}

Values(T) ==
    Bind(Container(T), LAMBDA c :
        CASE c.kind = "struct" ->
               {[id \in Idents(c.struct_fields) |->
                    t[CHOOSE i \in 1..Len(c.struct_fields) : c.struct_fields[i].ident = id]] :
                   t \in FieldTuples(c.struct_fields, 1)}
          [] c.kind = "enum" ->
               UNION {VariantValues(c.enum_variants[i]) : i \in 1..Len(c.enum_variants)}
          [] c.kind = "unparsed" -> UnparsedValues)

----------------------------------------------------------------------------
(* The state machine: an input is read event by event (phase "input"),     *)
(* xml_deserialize_from_reader is called on it, the record it returns is   *)
(* given to xml_serialize, and the string written is read again.           *)

NoResult == [st |-> "none", v |-> <<>>, pos |-> 0, msg |-> <<>>]

InitOf(roots) ==
    /\ root \in roots
    /\ doc = <<>>
    /\ phase = "input"
    /\ rec = None
    /\ res = NoResult
    /\ out = <<>>

CanRead == phase = "input" /\ Len(doc) < DocBound(root)

(* The input goes on with a start tag. *)
InputStart ==
    /\ CanRead
    /\ \E e \in StartEvents(root) : doc' = Append(doc, Start(e[1], e[2]))
    /\ UNCHANGED <<root, phase, rec, res, out>>

(* The input goes on with a self-closed tag. *)
InputEmpty ==
    /\ CanRead
    /\ \E e \in EmptyEvents(root) : doc' = Append(doc, Empty(e[1], e[2]))
    /\ UNCHANGED <<root, phase, rec, res, out>>

(* The input goes on with the end tag of the innermost open element (the   *)
(* reader reports any other end tag as an error).                          *)
InputEnd ==
    /\ CanRead
    /\ LET open == OpenTags(doc, 1, <<>>)
       IN  /\ Len(open) > 0
           /\ doc' = Append(doc, End(open[Len(open)]))
    /\ UNCHANGED <<root, phase, rec, res, out>>

(* The input goes on with text; the reader yields no empty text and one    *)
(* event for a run of text.                                                *)
InputText ==
    /\ CanRead
    /\ Len(doc) > 0 => doc[Len(doc)].k # "Text"
    /\ \E t \in Texts(root) : doc' = Append(doc, Text(t))
    /\ UNCHANGED <<root, phase, rec, res, out>>

(* The reader fails at this point of the input.                            *)
InputErr ==
    /\ CanRead
    /\ doc' = Append(doc, ReadErr)
    /\ UNCHANGED <<root, phase, rec, res, out>>

(* xml_deserialize_from_reader on the input read so far: the reader yields *)
(* Eof from its end on.                                                    *)
XmlDeserializeFromReader ==
    /\ phase = "input"
    /\ res' = xml_deserialize_from_reader(root, doc)
    /\ rec' = res'.v
    /\ phase' = "deserialized"
    /\ UNCHANGED <<root, doc, out>>

(* xml_serialize on the record held.                                       *)
XmlSerialize ==
    /\ phase \in {"deserialized", "value"}
    /\ rec # None
    /\ out' = xml_serialize(root, rec[1])
    /\ phase' = "serialized"
    /\ UNCHANGED <<root, doc, rec, res>>

(* xml_deserialize_from_str on the string written.                         *)
XmlDeserializeFromStr ==
    /\ phase = "serialized"
    /\ res' = xml_deserialize_from_reader(root, ReadBack(out))
    /\ phase' = "reread"
    /\ UNCHANGED <<root, doc, rec, out>>

Next ==
    \/ InputStart
    \/ InputEmpty
    \/ InputEnd
    \/ InputText
    \/ InputErr
    \/ XmlDeserializeFromReader
    \/ XmlSerialize
    \/ XmlDeserializeFromStr

Init == InitOf({"Person", "PersonDefault", "Num", "PetDeny"})

Spec == Init /\ [][Next]_vars

InitDeny == InitOf({"PetDeny", "OwnerDeny"})

SpecDeny == InitDeny /\ [][Next]_vars

InitAccept == InitOf({"Pet", "Owner"})

SpecAccept == InitAccept /\ [][Next]_vars

InitUnparsed == InitOf({"TestA"})

SpecUnparsed == InitUnparsed /\ [][Next]_vars

InitUntag == InitOf({"Root", "RootRev", "RootVec"})

SpecUntag == InitUntag /\ [][Next]_vars

InitText == InitOf({"TextP", "TextQ", "TextPair"})

SpecText == InitText /\ [][Next]_vars

InitRoute == InitOf({"Foo", "FooRev"})

SpecRoute == InitRoute /\ [][Next]_vars

InitDispatch == InitOf({"Disp", "Arity"})

SpecDispatch == InitDispatch /\ [][Next]_vars

(* The conversions of XmlValue on their own: a string is given character   *)
(* by character (phase "chars") and converted, a value is written and the  *)
(* string written is converted back.  root is the type, doc the string.    *)

MaxChars == 5

(* The characters of the strings given to the conversion of a type.        *)
Alphabet(t) ==
    CASE t = "bool" -> {"0", "1", "t", "T", "r", "u", "e", "E", "f", "a", "l", "s"}
      [] t = "T" -> {"a", "b", "c", "A", "x"}

InputChar ==
    /\ phase = "chars"
    /\ Len(doc) < MaxChars
    /\ \E ch \in Alphabet(root) : doc' = Append(doc, ch)
    /\ UNCHANGED <<root, phase, rec, res, out>>

(* What a call of XmlValue::deserialize leaves.                            *)
Converted(r) ==
    IF r.ok THEN Returned(r.v[1], 0) ELSE Failed(<<r.msg>>, 0)

(* <T as XmlValue>::deserialize on the string given.                       *)
XmlValueDeserialize ==
    /\ phase = "chars"
    /\ res' = Converted(ValueDeserialize(root, doc))
    /\ rec' = res'.v
    /\ phase' = "converted"
    /\ UNCHANGED <<root, doc, out>>

(* XmlValue::serialize on the value held.                                  *)
XmlValueSerialize ==
    /\ phase = "scalar"
    /\ out' = ValueSerialize(root, rec[1])
    /\ phase' = "written"
    /\ UNCHANGED <<root, doc, rec, res>>

(* <T as XmlValue>::deserialize on the string written.                     *)
XmlValueDeserializeWritten ==
    /\ phase = "written"
    /\ res' = Converted(ValueDeserialize(root, out))
    /\ phase' = "reconverted"
    /\ UNCHANGED <<root, doc, rec, out>>

InitValue ==
    /\ root \in {"bool", "T"}
    /\ doc = <<>>
    /\ \/ phase = "chars" /\ rec = None
       \/ phase = "scalar" /\ rec \in {Some(x) : x \in ScalarValues(root)}
    /\ res = NoResult
    /\ out = <<>>

NextValue ==
    \/ InputChar
    \/ XmlValueDeserialize
    \/ XmlValueSerialize
    \/ XmlValueDeserializeWritten

SpecValue == InitValue /\ [][NextValue]_vars

(* The records given to xml_serialize directly.                            *)
SerRoots ==
    {"Person", "PersonOptAttr", "PersonDefault", "PersonNs", "ChildNs", "AStruct",
     "Pet", "Owner", "TestA", "Root", "RootVec", "RootOpt", "Foo", "FooOption",
     "Namespace", "Note", "Mixed"}

InitSer ==
    /\ root \in SerRoots
    /\ doc = <<>>
    /\ phase = "value"
    /\ rec \in {Some(v) : v \in Values(root)}
    /\ res = NoResult
    /\ out = <<>>

(* xml_serialize_with_decl on the record held.                             *)
XmlSerializeWithDecl ==
    /\ phase = "value"
    /\ rec # None
    /\ out' = xml_serialize_with_decl(root, rec[1])
    /\ phase' = "serialized_decl"
    /\ UNCHANGED <<root, doc, rec, res>>

NextSer ==
    \/ XmlSerialize
    \/ XmlSerializeWithDecl
    \/ XmlDeserializeFromStr

SpecSer == InitSer /\ [][NextSer]_vars

(* The records with untagged fields given to xml_serialize and to          *)
(* xml_serialize_with_decl.                                                *)
UntagSerRoots ==
    {"Wrapper", "WrapperBar", "FooFlag", "Foo", "FooOption", "Root", "RootVec", "RootOpt"}

InitSerUntag ==
    /\ root \in UntagSerRoots
    /\ doc = <<>>
    /\ phase = "value"
    /\ rec \in {Some(v) : v \in Values(root)}
    /\ res = NoResult
    /\ out = <<>>

NextSerUntag ==
    \/ XmlSerialize
    \/ XmlSerializeWithDecl

SpecSerUntag == InitSerUntag /\ [][NextSerUntag]_vars

(* The records with namespace declarations, under either policy.           *)
NsRoots == {"ChildNs", "ChildNsDeny", "PetNs", "PetNsDeny", "NsBoth", "NsBothDeny"}

InitNs ==
    /\ root \in NsRoots
    /\ doc = <<>>
    /\ phase = "value"
    /\ rec \in {Some(v) : v \in Values(root)}
    /\ res = NoResult
    /\ out = <<>>

SpecNs == InitNs /\ [][NextSer]_vars

----------------------------------------------------------------------------
(* Reading a document as a tree: what the properties below say about an    *)
(* input is said in these terms.                                           *)

IsElement(e) == e.k \in {"Start", "Empty"}

NoReadErr(d) == \A i \in 1..Len(d) : d[i].k # "Err"

RootTag == Container(root).root[1]

(* The first start or empty element named rt that the reader yields before *)
(* any read error; 0 when there is none.                                   *)
RootIdx(d, rt) ==
    LET i == FirstIdx(d, LAMBDA e : (IsElement(e) /\ e.name = rt) \/ e.k = "Err")
    IN  IF i # 0 /\ d[i].k # "Err" THEN i ELSE 0

(* The end tag that closes the element open at depth n, from event j on.   *)
RECURSIVE MatchingEnd(_, _, _)
MatchingEnd(d, j, n) ==
    IF j > Len(d) THEN 0
    ELSE IF d[j].k = "Start" THEN MatchingEnd(d, j + 1, n + 1)
    ELSE IF d[j].k = "End"
    THEN IF n = 0 THEN j ELSE MatchingEnd(d, j + 1, n - 1)
    ELSE MatchingEnd(d, j + 1, n)

(* The last event of the element that starts at i; 0 when it is not closed *)
CloseIdx(d, i) == IF d[i].k = "Empty" THEN i ELSE MatchingEnd(d, i + 1, 0)

(* The child elements directly inside the element that starts at i.        *)
ChildElements(d, i) ==
    LET c == CloseIdx(d, i)
        last == IF c = 0 THEN Len(d) ELSE c - 1
    IN  {j \in (i + 1)..last :
            IsElement(d[j]) /\ OpenTags(SubSeq(d, i + 1, j - 1), 1, <<>>) = <<>>}

(* The document without the element that starts at j.                      *)
Removed(d, j) == SubSeq(d, 1, j - 1) \o SubSeq(d, CloseIdx(d, j) + 1, Len(d))

DeclaredAttrNames(T) ==
    {FieldsSummary(T).attrs[k].name : k \in 1..Len(FieldsSummary(T).attrs)}

DeclaredChildNames(T) ==
    LET s == FieldsSummary(T)
        untagged == s.untagged_enums \o s.untagged_structs
        tags == FlattenSeq([k \in 1..Len(untagged) |-> get_children_tags(untagged[k].t)])
    IN  {s.children[k].name : k \in 1..Len(s.children)}
        \cup {s.self_closed_children[k].name : k \in 1..Len(s.self_closed_children)}
        \cup {tags[k] : k \in 1..Len(tags)}

AttrKeys(e) == {e.attrs[k][1] : k \in 1..Len(e.attrs)}

(* The element that starts at i carries an attribute or a child element    *)
(* that matches no declared field of T.                                    *)
HasUnknownAttr(T, d, i) == \E a \in AttrKeys(d[i]) : a \notin DeclaredAttrNames(T)

HasUnknownChild(T, d, i) ==
    \E j \in ChildElements(d, i) : d[j].name \notin DeclaredChildNames(T)

Complete(d) == NoReadErr(d) /\ OpenTags(d, 1, <<>>) = <<>>

SameOutcome(r1, r2) == r1.st = r2.st /\ r1.v = r2.v

(* The type T holds an Unparsed somewhere.                                 *)
RECURSIVE UsesUnparsed(_)
UsesUnparsed(T) ==
    LET c == Container(T)
    IN  \/ c.kind = "unparsed"
        \/ \E k \in 1..Len(c.struct_fields) :
               ~IsScalar(c.struct_fields[k].t) /\ UsesUnparsed(c.struct_fields[k].t)
        \/ \E k \in 1..Len(c.enum_variants) :
               /\ c.enum_variants[k].ty # None
               /\ ~IsScalar(c.enum_variants[k].ty[1])
               /\ UsesUnparsed(c.enum_variants[k].ty[1])

CodecsRoundTrip ==
    \A t \in {"u16", "bool", "String"} : \A x \in ScalarValues(t) :
        ValueDeserialize(t, ValueSerialize(t, x)) = Ok(x)

(* A non-attribute field is absent: None, the empty sequence, a false      *)
(* flag, or the value of its default provider.                             *)
Absent(f, x) ==
    IF f.ty = "SelfClosedChild" THEN x = FALSE
    ELSE IF f.generic = "Opt" THEN x = None
    ELSE IF f.generic = "Vec" THEN x = <<>>
    ELSE f.default # None /\ x = f.default[1]

AllAbsent(T, v) ==
    \A k \in 1..Len(Container(T).struct_fields) :
        LET f == Container(T).struct_fields[k]
        IN  f.ty # "Attr" => Absent(f, v[f.ident])

(* The attributes expected on the element of the record v: the namespace   *)
(* declarations, then the attribute fields that are Some, or bare and      *)
(* different from their default, or bare without a default.                *)
ExpectedAttrs(T, v) ==
    LET c == Container(T)
        present == SelectSeq(FieldsSummary(T).attrs,
                             LAMBDA f : IF f.generic = "Opt" THEN v[f.ident] # None
                                        ELSE IF f.default = None THEN TRUE
                                        ELSE v[f.ident] # f.default[1])
    IN  (IF c.with_ns = None THEN <<>> ELSE <<<<"xmlns", c.with_ns[1]>>>>)
        \o [k \in 1..Len(c.custom_ns) |->
               <<"xmlns:" \o c.custom_ns[k][1], c.custom_ns[k][2]>>]
        \o [k \in 1..Len(present) |->
               <<present[k].name,
                 ValueSerialize(present[k].t,
                                IF present[k].generic = "Opt" THEN v[present[k].ident][1]
                                ELSE v[present[k].ident])>>]

SelfClosed(w) == Len(w) = 1 /\ w[1].k = "Empty"

(* The variables of the root record's deserialize after the attributes,    *)
(* the body pass and the untagged struct fields, before get_result.        *)
RootLocals(T, d) ==
    LET i == RootIdx(d, Container(T).root[1])
        i0 == get_fields_init(T)
        a == ReadAttrs(T, d[i].attrs, 1, i0.loc, i0.arr, i)
        b == IF a.st = "panic" \/ d[i].k = "Empty" THEN a
             ELSE StructLoop(T, Container(T).root[1], d, i, a.loc, a.arr)
    IN  IF b.st = "panic" THEN b
        ELSE get_untagged_struct_fields_result(
                 FieldsSummary(T).untagged_structs, 1, b.loc, b.arr, b.pos)

RequiredFields(T) == SelectSeq(Container(T).struct_fields, is_required)

(* The document supplies nothing for the field f of the root element at i. *)
NotSupplied(f, d, i) ==
    CASE f.ty = "Attr" -> f.name \notin AttrKeys(d[i])
      [] f.ty = "Child" ->
           \A j \in (i + 1)..Len(d) : ~(IsElement(d[j]) /\ d[j].name = f.name)
      [] f.ty = "Text" -> \A j \in (i + 1)..Len(d) : d[j].k # "Text"
      [] OTHER -> FALSE

----------------------------------------------------------------------------
(* C1: a record of a type without Unparsed, of round-trip-safe codecs,     *)
(* when serialized and deserialized again, comes back as Ok of itself.     *)
C1_RoundTrip ==
    (phase = "reread" /\ ~UsesUnparsed(root) /\ CodecsRoundTrip)
        => (res.st = "ok" /\ res.v = rec)

(* C2: under deny_unknown_fields, a complete document whose root element   *)
(* carries an attribute or a child element that matches no declared field  *)
(* yields no record.                                                       *)
C2_DenyRejectsUnknown ==
    (/\ phase = "deserialized"
     /\ Container(root).deny_unknown
     /\ Complete(doc)
     /\ RootIdx(doc, RootTag) # 0)
        => LET i == RootIdx(doc, RootTag)
           IN  (HasUnknownAttr(root, doc, i) \/ HasUnknownChild(root, doc, i))
                   => res.st # "ok"

(* C3: under the Accept policy, the outcome for a complete document equals *)
(* the outcome for the same document without any one child element of the  *)
(* root that matches no declared field.                                    *)
C3_AcceptSkipsSubtree ==
    (/\ phase = "deserialized"
     /\ ~Container(root).deny_unknown
     /\ Complete(doc)
     /\ RootIdx(doc, RootTag) # 0)
        => LET i == RootIdx(doc, RootTag)
           IN  \A j \in ChildElements(doc, i) :
                   doc[j].name \notin DeclaredChildNames(root) =>
                       SameOutcome(res, xml_deserialize_from_reader(root, Removed(doc, j)))

(* The subtree captured by the others field of TestA when the document is  *)
(* the root element around that one child.                                 *)
OneCapturedChild ==
    /\ NoReadErr(doc)
    /\ Len(doc) >= 3
    /\ doc[1] = Start("TestA", NoAttrs)
    /\ IsElement(doc[2])
    /\ doc[2].name = "others"
    /\ CloseIdx(doc, 2) = Len(doc) - 1
    /\ doc[Len(doc)] = End("TestA")

(* An element without body is written self-closed.                         *)
Replayed(sub) ==
    IF Len(sub) = 2 /\ sub[1].k = "Start" /\ sub[2].k = "End"
    THEN <<Empty(sub[1].name, sub[1].attrs)>>
    ELSE sub

(* C4: the subtree captured by an Unparsed field is written back by        *)
(* Unparsed::serialize as the event sequence it was read from (an element  *)
(* without body in its self-closed form), also when a descendant carries   *)
(* the tag name of the captured element.                                   *)
C4_UnparsedFaithful ==
    (phase = "serialized" /\ root = "TestA" /\ OneCapturedChild)
        => UnparsedSerialize(rec[1].others, "others")
               = Replayed(SubSeq(doc, 2, Len(doc) - 1))

(* The failures of the root element that are decided by its own tag: an    *)
(* attribute of a declared field whose conversion fails, an undeclared     *)
(* attribute under deny_unknown_fields, a required attribute that is not   *)
(* there, a self-closed element of a record with a required field that is  *)
(* no attribute, a first text whose conversion fails.                      *)
AttrConversionFails(T, e) ==
    \E k \in 1..Len(e.attrs) :
        LET fa == FieldsSummary(T).attrs
            n == FirstIdx(fa, LAMBDA f : f.name = e.attrs[k][1])
        IN  n # 0 /\ ~ValueDeserialize(fa[n].t, e.attrs[k][2]).ok

RequiredAttrMissing(T, e) ==
    \E k \in 1..Len(RequiredFields(T)) :
        RequiredFields(T)[k].ty = "Attr" /\ RequiredFields(T)[k].name \notin AttrKeys(e)

RequiredBodyMissing(T, e) ==
    e.k = "Empty" /\ \E k \in 1..Len(RequiredFields(T)) : RequiredFields(T)[k].ty # "Attr"

TextConversionFails(T, d, i) ==
    LET s == FieldsSummary(T)
    IN  /\ d[i].k = "Start"
        /\ d[i].attrs = <<>>
        /\ s.text # None
        /\ Len(s.children) = 0 /\ Len(s.self_closed_children) = 0
        /\ Len(s.untagged_enums) = 0 /\ Len(s.untagged_structs) = 0
        /\ i < Len(d)
        /\ d[i + 1].k = "Text"
        /\ ~ValueDeserialize(s.text[1].t, d[i + 1].text).ok

FailsAtRoot(T, d, i) ==
    \/ AttrConversionFails(T, d[i])
    \/ Container(T).deny_unknown /\ HasUnknownAttr(T, d, i)
    \/ RequiredAttrMissing(T, d[i])
    \/ RequiredBodyMissing(T, d[i])
    \/ TextConversionFails(T, d, i)

(* C5, as the code has it: a conversion failure of an attribute or of the  *)
(* text, an undeclared attribute under deny_unknown_fields and a missing   *)
(* required field end the call by a panic, with no value returned; Err is  *)
(* returned exactly when the scan for the root element ends without it.    *)
C5_FailuresPanic ==
    phase = "deserialized"
        => LET i == RootIdx(doc, RootTag)
           IN  /\ res.st = "err" <=> i = 0
               /\ (i # 0 /\ FailsAtRoot(root, doc, i))
                      => (res.st = "panic" /\ res.v = None)

C5_Witness ==
    /\ phase = "deserialized"
    /\ root = "PersonDefault"
    /\ RootIdx(doc, RootTag) # 0
    /\ AttrConversionFails(root, doc[RootIdx(doc, RootTag)])
    /\ res.st = "panic"

(* C5 as stated: no call ends by a panic.                                  *)
C5_NeverPanics == phase = "deserialized" => res.st # "panic"

(* C6: when a required field of the root record has no value after the     *)
(* body pass the call yields no record, and it does so whenever the        *)
(* document supplies nothing for a required field; when every required     *)
(* field has a value, the record returned holds for every other field the  *)
(* value its variable had after the body pass.                             *)
C6_MissingRequired ==
    (phase = "deserialized" /\ RootIdx(doc, RootTag) # 0)
        => LET i == RootIdx(doc, RootTag)
               b == RootLocals(root, doc)
               fs == Container(root).struct_fields
               req == RequiredFields(root)
               missing == \E k \in 1..Len(req) : b.loc[req[k].ident] = None
           IN  /\ (b.st = "ok" /\ missing) => (res.st = "panic" /\ res.v = None)
               /\ (b.st = "ok" /\ ~missing)
                      => /\ res.st = "ok"
                         /\ \A k \in 1..Len(fs) :
                                IF is_required(fs[k])
                                THEN Some(res.v[1][fs[k].ident]) = b.loc[fs[k].ident]
                                ELSE res.v[1][fs[k].ident] = b.loc[fs[k].ident]
               /\ (\E k \in 1..Len(req) : NotSupplied(req[k], doc, i)) => res.st # "ok"

C6_Witness ==
    /\ phase = "deserialized"
    /\ root = "Person"
    /\ Complete(doc)
    /\ RootIdx(doc, RootTag) # 0
    /\ RootLocals(root, doc).st = "ok"
    /\ RootLocals(root, doc).loc["c"] = None
    /\ RootLocals(root, doc).loc["lefty"]
    /\ res.st = "panic"

(* C7: when the input ends after the start tag of the root element and     *)
(* before the end tag that closes it, the call yields no record.           *)
C7_PrematureEofFails ==
    (/\ phase = "deserialized"
     /\ NoReadErr(doc)
     /\ RootIdx(doc, RootTag) # 0
     /\ doc[RootIdx(doc, RootTag)].k = "Start"
     /\ CloseIdx(doc, RootIdx(doc, RootTag)) = 0)
        => res.st # "ok"

(* C8: the outcome of xml_deserialize_from_reader is that of the type's    *)
(* deserialize called on the first start or empty element named as the     *)
(* root, wherever it is, and no event before it matters; when the input    *)
(* ends without such an element the call returns Err with a message that   *)
(* names the root tag.                                                     *)
C8_RootScan ==
    phase = "deserialized"
        => LET i == RootIdx(doc, RootTag)
           IN  /\ i # 0 =>
                     /\ res = Deserialize(root, RootTag, doc, i, doc[i].attrs,
                                          doc[i].k = "Empty")
                     /\ SameOutcome(res, xml_deserialize_from_reader(
                                             root, SubSeq(doc, i, Len(doc))))
               /\ (i = 0 /\ NoReadErr(doc))
                     => /\ res.st = "err"
                        /\ res.msg = <<"Cannot find the element: ", RootTag>>

C8_Witness ==
    /\ phase = "deserialized"
    /\ RootIdx(doc, RootTag) > 1
    /\ OpenTags(SubSeq(doc, 1, RootIdx(doc, RootTag) - 1), 1, <<>>) # <<>>
    /\ res.st = "ok"

DeclaresUntaggedVariant(T) == Len(FieldsSummary(T).untagged_enums) > 0

C10_Emptiness ==
    (phase = "serialized" /\ Container(root).kind = "struct")
        => (SelfClosed(out)
               <=> (/\ AllAbsent(root, rec[1])
                    /\ Len(FieldsSummary(root).untagged_structs) = 0))

----------------------------------------------------------------------------
(* The field f of the record written as o is in the output: its attribute  *)
(* on the record's tag, an element of its name directly inside the         *)
(* record's element, or a text event.                                      *)
FieldWritten(f, o) ==
    IF f.ty = "Attr" THEN f.name \in AttrKeys(o[1])
    ELSE IF f.ty = "Child" THEN \E j \in ChildElements(o, 1) : o[j].name = f.name
    ELSE \E j \in 1..Len(o) : o[j].k = "Text"

DefaultFields(T) == SelectSeq(Container(T).struct_fields, LAMBDA f : f.default # None)

(* C11: a field (attribute, child or text) that declares a default         *)
(* provider is left out of the output when its value equals the            *)
(* provider's, and is written when the value differs.                      *)
C11_DefaultSkip ==
    (phase = "serialized" /\ Container(root).kind = "struct")
        => \A k \in 1..Len(DefaultFields(root)) :
               LET f == DefaultFields(root)[k]
               IN  (rec[1][f.ident] = f.default[1]) <=> ~FieldWritten(f, out)

----------------------------------------------------------------------------
(* The order of what is written for a record.                              *)

(* The namespace declarations of T, the default one first.                 *)
NsAttrs(T) ==
    (IF Container(T).with_ns = None THEN <<>>
     ELSE <<<<"xmlns", Container(T).with_ns[1]>>>>)
    \o [i \in 1..Len(Container(T).custom_ns) |->
           <<"xmlns:" \o Container(T).custom_ns[i][1], Container(T).custom_ns[i][2]>>]

(* The names of the attribute fields of T as they are declared.            *)
DeclaredAttrOrder(T) ==
    LET fa == SelectSeq(Container(T).struct_fields, LAMBDA f : f.ty = "Attr")
    IN  [i \in 1..Len(fa) |-> fa[i].name]

(* keys lists some of the entries of order, each once, in that order.      *)
InOrder(keys, order) ==
    keys = SelectSeq(order, LAMBDA k : \E i \in 1..Len(keys) : keys[i] = k)

(* The field of T that an element named n directly inside the record       *)
(* belongs to; 0 when there is none.                                       *)
BodyField(T, n) ==
    FirstIdx(Container(T).struct_fields,
             LAMBDA f : \/ f.ty \in {"SelfClosedChild", "Child"} /\ f.name = n
                        \/ /\ f.ty \in {"Untag", "UntaggedEnum"}
                           /\ Contains(get_children_tags(f.t), n))

(* The place of that element in the body: the flags, then the named        *)
(* children, then the untagged fields, each group in declaration order.    *)
BodyRank(T, n) ==
    LET k == BodyField(T, n)
        f == Container(T).struct_fields[k]
    IN  (IF f.ty = "SelfClosedChild" THEN 100
         ELSE IF f.ty = "Child" THEN 200 ELSE 300) + k

(* C12: on the tag, the default namespace, then the prefixed namespaces,   *)
(* then the attribute fields in declaration order; in the body, the flags  *)
(* that are true, then the named children in declaration order, then the   *)
(* untagged fields; a record with a text field has text as its only body   *)
(* content.                                                                *)
C12_EmissionOrder ==
    (phase = "serialized" /\ Container(root).kind = "struct")
        => LET ns == NsAttrs(root)
               kids == ChildElements(out, 1)
               fs == Container(root).struct_fields
           IN  /\ Len(out[1].attrs) >= Len(ns)
               /\ SubSeq(out[1].attrs, 1, Len(ns)) = ns
               /\ InOrder([i \in 1..(Len(out[1].attrs) - Len(ns)) |->
                              out[1].attrs[Len(ns) + i][1]],
                          DeclaredAttrOrder(root))
               /\ \A i \in kids : BodyField(root, out[i].name) # 0
               /\ \A i, j \in kids :
                      i < j => BodyRank(root, out[i].name) <= BodyRank(root, out[j].name)
               /\ \A k \in 1..Len(fs) :
                      fs[k].ty = "SelfClosedChild"
                          => (rec[1][fs[k].ident]
                                 <=> \E i \in kids : out[i] = Empty(fs[k].name, <<>>))
               /\ FieldsSummary(root).text # None
                      => /\ Len(out) <= 3
                         /\ \A i \in 2..(Len(out) - 1) : out[i].k = "Text"

(* A record holding something of every role has been written.              *)
C12_Witness ==
    /\ phase = "serialized"
    /\ root = "Mixed"
    /\ rec[1].f
    /\ rec[1].x # None /\ rec[1].y # None
    /\ rec[1].c # None /\ rec[1].d # None /\ rec[1].u # None
    /\ Len(out) = 6
    /\ <<out[2].name, out[3].name, out[4].name>> = <<"f", "d", "c">>
    /\ <<out[1].attrs[1][1], out[1].attrs[2][1], out[1].attrs[3][1], out[1].attrs[4][1]>>
           = <<"xmlns", "xmlns:p", "y", "x">>

----------------------------------------------------------------------------
(* The self-closing flags of T.                                            *)
Flags(T) == SelectSeq(Container(T).struct_fields, LAMBDA f : f.ty = "SelfClosedChild")

(* The element that starts at i has a self-closed child element named n    *)
(* directly inside it.                                                     *)
HasEmptyChild(d, i, n) == \E j \in ChildElements(d, i) : d[j].k = "Empty" /\ d[j].name = n

(* C13: in the record read from a well-formed document, a self-closing     *)
(* flag is true if and only if a self-closed element of the flag's name is *)
(* directly inside the record's element; every flag is false when the      *)
(* record's element is itself self-closed.                                 *)
C13_FlagIffDirectChild ==
    (/\ phase = "deserialized"
     /\ res.st = "ok"
     /\ Complete(doc)
     /\ RootIdx(doc, RootTag) # 0)
        => \A k \in 1..Len(Flags(root)) :
               rec[1][Flags(root)[k].ident]
                   <=> HasEmptyChild(doc, RootIdx(doc, RootTag), Flags(root)[k].name)

----------------------------------------------------------------------------
(* Untagged variant fields.                                                *)

(* The untagged variant field of T (the first one).                        *)
UntagField(T) == FieldsSummary(T).untagged_enums[1]

(* The variant that E declares with the tag t.                             *)
VariantOfTag(E, t) ==
    LET vs == Container(E).enum_variants
    IN  vs[CHOOSE k \in 1..Len(vs) : vs[k].name = t]

(* The element e is as serialize writes a variant of E: self-closed, named *)
(* by a tag of E, with the attributes of the variant's type, each value in *)
(* the form its conversion writes.                                         *)
WrittenVariant(E, e) ==
    /\ e.k = "Empty"
    /\ Contains(get_children_tags(E), e.name)
    /\ LET fa == FieldsSummary(VariantOfTag(E, e.name).ty[1]).attrs
       IN  /\ Len(e.attrs) = Len(fa)
           /\ \A i \in 1..Len(fa) :
                  /\ e.attrs[i][1] = fa[i].name
                  /\ ValueDeserialize(fa[i].t, e.attrs[i][2]).ok
                  /\ ValueSerialize(fa[i].t, ValueDeserialize(fa[i].t, e.attrs[i][2]).v[1])
                         = e.attrs[i][2]

(* The document is the root element of T around written variants only.     *)
UntagDoc(T, d) ==
    /\ Len(FieldsSummary(T).untagged_enums) = 1
    /\ Len(d) >= 2
    /\ d[1] = Start(Container(T).root[1], <<>>)
    /\ d[Len(d)] = End(Container(T).root[1])
    /\ \A i \in 2..(Len(d) - 1) : WrittenVariant(UntagField(T).t, d[i])

----------------------------------------------------------------------------
(* The conversions of XmlValue.                                            *)

UpperOf(ch) ==
    CASE ch = "t" -> "T" [] ch = "r" -> "R" [] ch = "u" -> "U" [] ch = "e" -> "E"
      [] ch = "f" -> "F" [] ch = "a" -> "A" [] ch = "l" -> "L" [] ch = "s" -> "S"
      [] OTHER -> ch

(* s is the word w in some letter case.                                    *)
IsWord(s, w) ==
    /\ Len(s) = Len(w)
    /\ \A i \in 1..Len(w) : s[i] = w[i] \/ s[i] = UpperOf(w[i])

(* C16: deserialize for bool gives Ok(true) for "1" and "true", Ok(false)  *)
(* for "0" and "false", in any letter case, and Err for any other string;  *)
(* serialize gives "1" for true and "0" for false, and what it gives       *)
(* deserializes to the value.                                              *)
C16_BoolCodec ==
    root = "bool"
        => /\ phase = "converted"
              => IF doc = <<"1">> \/ IsWord(doc, <<"t", "r", "u", "e">>)
                 THEN res.st = "ok" /\ res.v = <<TRUE>>
                 ELSE IF doc = <<"0">> \/ IsWord(doc, <<"f", "a", "l", "s", "e">>)
                 THEN res.st = "ok" /\ res.v = <<FALSE>>
                 ELSE res.st = "err"
           /\ phase = "written" => out = IF rec[1] THEN <<"1">> ELSE <<"0">>
           /\ phase = "reconverted" => res.st = "ok" /\ res.v = rec

(* A mixed-case word has been converted.                                   *)
C16_Witness ==
    /\ root = "bool"
    /\ phase = "converted"
    /\ doc = <<"T", "r", "u", "E">>
    /\ res.v = <<TRUE>>

(* The literals that the enum E declares.                                  *)
Literals(E) == {SerdeEnumPairs(E)[i][2] : i \in 1..Len(SerdeEnumPairs(E))}

C18_SerdeEnumPairs ==
    root = "T"
        => \A i \in 1..Len(SerdeEnumPairs(root)) :
               LET V == SerdeEnumPairs(root)[i][1]
                   lit == SerdeEnumPairs(root)[i][2]
               IN  /\ (phase = "written" /\ rec = Some(V)) => out = lit
                   /\ (phase = "converted" /\ doc = lit)
                          => res.st = "ok" /\ res.v = Some(V)
                   /\ (phase = "reconverted" /\ rec = Some(V))
                          => res.st = "ok" /\ res.v = Some(V)

(* The last variant declared has been written and converted back.          *)
C18_Witness ==
    /\ root = "T"
    /\ phase = "reconverted"
    /\ rec = Some("C")
    /\ out = <<"c">>
    /\ res.v = Some("C")

----------------------------------------------------------------------------
(* C19: xml_serialize_with_decl writes one declaration event, of version   *)
(* 1.0, encoding UTF-8 and standalone yes, and after it the events that    *)
(* xml_serialize writes for the record.                                    *)
C19_DeclThenSerialize ==
    phase = "serialized_decl"
        => /\ out[1].k = "Decl"
           /\ out[1].attrs = <<<<"version", <<"1", ".", "0">>>>,
                               <<"encoding", <<"U", "T", "F", "-", "8">>>>,
                               <<"standalone", <<"y", "e", "s">>>>>>
           /\ Cardinality({i \in 1..Len(out) : out[i].k = "Decl"}) = 1
           /\ Tail(out) = xml_serialize(root, rec[1])

(* A record with a namespace, an attribute and a text has been written     *)
(* after the declaration.                                                  *)
C19_Witness ==
    /\ phase = "serialized_decl"
    /\ root = "PersonNs"
    /\ Len(out) = 4
    /\ out[2].k = "Start" /\ out[3].k = "Text" /\ out[4].k = "End"

----------------------------------------------------------------------------
(* The text events of d whose content is blank.                            *)
BlankTexts(d) == {j \in 1..Len(d) : d[j].k = "Text" /\ Trim(d[j].text) = <<>>}

(* The document without its event j.                                       *)
WithoutEvent(d, j) == SubSeq(d, 1, j - 1) \o SubSeq(d, j + 1, Len(d))

(* C20: for a record with a text field read from a well-formed document,   *)
(* a text event of blank content is ignored: the call ends as it does on   *)
(* the document without that event.                                        *)
C20_BlankTextIgnored ==
    (phase = "deserialized" /\ FieldsSummary(root).text # None /\ Complete(doc))
        => \A j \in BlankTexts(doc) :
               SameOutcome(res, xml_deserialize_from_reader(root, WithoutEvent(doc, j)))

----------------------------------------------------------------------------
(* The type E declares a text variant.                                     *)
HasTextVariant(E) ==
    \E k \in 1..Len(Container(E).enum_variants) :
        Container(E).enum_variants[k].ele_type = "Text"

(* The value x is of the text variant of E.                                *)
IsTextValue(E, x) ==
    \E k \in 1..Len(Container(E).enum_variants) :
        /\ Container(E).enum_variants[k].ele_type = "Text"
        /\ Container(E).enum_variants[k].ident = x.ident

(* The text variant values held by the field f of the record v.            *)
TextValues(f, v) ==
    IF f.generic = "Vec"
    THEN SelectSeq(v[f.ident], LAMBDA x : IsTextValue(f.t, x))
    ELSE IF f.generic = "Opt"
    THEN IF v[f.ident] # None /\ IsTextValue(f.t, v[f.ident][1]) THEN v[f.ident] ELSE <<>>
    ELSE IF IsTextValue(f.t, v[f.ident]) THEN <<v[f.ident]>> ELSE <<>>

(* The non-blank text events directly inside the element that starts at i. *)
DirectTexts(d, i) ==
    LET c == CloseIdx(d, i)
        last == IF c = 0 THEN Len(d) ELSE c - 1
    IN  {j \in (i + 1)..last :
            /\ d[j].k = "Text" /\ Trim(d[j].text) # <<>>
            /\ OpenTags(SubSeq(d, i + 1, j - 1), 1, <<>>) = <<>>}

(* The document is one root element of T, closed.                          *)
RootDoc(T, d) ==
    /\ Complete(d)
    /\ Len(d) >= 2
    /\ d[1] = Start(Container(T).root[1], <<>>)
    /\ CloseIdx(d, 1) = Len(d)

(* C21: a non-blank text event directly inside a record is assigned to     *)
(* exactly one untagged variant field, the first in field order whose type *)
(* has a text variant: that field receives one text value for the event    *)
(* and no later untagged variant field receives any.                       *)
C21_TextToFirstOnly ==
    (phase = "deserialized" /\ res.st = "ok" /\ RootDoc(root, doc))
        => LET us == FieldsSummary(root).untagged_enums
               k == FirstIdx(us, LAMBDA f : HasTextVariant(f.t))
           IN  k # 0
                 => /\ us[k].generic = "Vec"
                       => Len(TextValues(us[k], rec[1]))
                              = Cardinality(DirectTexts(doc, 1))
                    /\ \A j \in (k + 1)..Len(us) : TextValues(us[j], rec[1]) = <<>>

----------------------------------------------------------------------------
(* The events directly inside the root element of d that give a value to   *)
(* the untagged variant field f: the non-blank texts and the elements      *)
(* named by a tag of the field's type, in document order.                  *)
RECURSIVE ItemsFrom(_, _, _)
ItemsFrom(f, d, j) ==
    IF j >= Len(d) THEN <<>>
    ELSE IF OpenTags(SubSeq(d, 2, j - 1), 1, <<>>) # <<>> THEN ItemsFrom(f, d, j + 1)
    ELSE IF \/ j \in DirectTexts(d, 1)
            \/ IsElement(d[j]) /\ Contains(get_children_tags(f.t), d[j].name)
    THEN <<j>> \o ItemsFrom(f, d, j + 1)
    ELSE ItemsFrom(f, d, j + 1)

(* The record has one untagged variant field, a Vec of a type with a text  *)
(* variant.                                                                *)
VecTextUntag(T) ==
    /\ Len(FieldsSummary(T).untagged_enums) = 1
    /\ UntagField(T).generic = "Vec"
    /\ HasTextVariant(UntagField(T).t)

(* C22: for a record with a Vec untagged variant field whose type has a    *)
(* text variant, a text event of only whitespace adds no element and a     *)
(* non-blank text event adds exactly one element, of the text variant,     *)
(* holding the content of the event: the sequence read has one element for *)
(* each non-blank text and each matching child element, in document order. *)
(* The child elements of the document are those the field's type declares. *)
C22_BlankTextNoValue ==
    (/\ phase = "deserialized"
     /\ VecTextUntag(root)
     /\ RootDoc(root, doc)
     /\ ~HasUnknownChild(root, doc, 1)
     /\ res.st = "ok")
        => LET f == UntagField(root)
               items == ItemsFrom(f, doc, 2)
               vals == rec[1][f.ident]
           IN  /\ Len(vals) = Len(items)
               /\ \A n \in 1..Len(items) :
                      IF doc[items[n]].k = "Text"
                      THEN vals[n] = [ident |-> "Text",
                                      payload |-> Some(doc[items[n]].text)]
                      ELSE ~IsTextValue(f.t, vals[n])

(* A document with whitespace between two child elements has been read as  *)
(* two elements.                                                           *)
C22_Witness ==
    /\ root = "TextQ"
    /\ phase = "deserialized"
    /\ doc = <<Start("q", <<>>), Empty("span", <<>>), Text(<<" ">>),
               Empty("span", <<>>), End("q")>>
    /\ res.st = "ok"
    /\ Len(rec[1].content) = 2

----------------------------------------------------------------------------
(* The events x appear in w one after the other.                           *)
IsInfix(x, w) ==
    \E i \in 0..(Len(w) - Len(x)) : SubSeq(w, i + 1, i + Len(x)) = x

(* The untagged fields of T, variant and struct.                           *)
UntaggedFields(T) ==
    FieldsSummary(T).untagged_enums \o FieldsSummary(T).untagged_structs

(* C23: a record that is not written self-closed has the content of every  *)
(* untagged field, variant or struct, in its output: what serialize with   *)
(* the empty tag writes for the field's value appears inside the element.  *)
C23_UntaggedDelegation ==
    (phase = "serialized" /\ ~SelfClosed(out))
        => \A k \in 1..Len(UntaggedFields(root)) :
               LET f == UntaggedFields(root)[k]
               IN  IsInfix(SerializeGeneric(f, rec[1][f.ident], ""), out)

----------------------------------------------------------------------------
(* C24: serialize under the empty tag writes the body alone: no start,     *)
(* end or empty-element event of the output has the empty name, whatever   *)
(* the value of the untagged field, one with no field present included.    *)
C24_NoEmptyName ==
    phase \in {"serialized", "serialized_decl"}
        => \A i \in 1..Len(out) :
               out[i].k \in {"Start", "Empty", "End"} => out[i].name # ""

----------------------------------------------------------------------------
(* The untagged struct field of a record with one.                         *)
UntaggedStructField(T) == FieldsSummary(T).untagged_structs[1]

(* The child that the type S declares with the tag t.                      *)
ChildOfTag(S, t) ==
    LET cs == FieldsSummary(S).children
    IN  cs[CHOOSE k \in 1..Len(cs) : cs[k].name = t]

(* The element e is a self-closed child of S with the attributes of the    *)
(* child's type, each of a value its conversion accepts.                   *)
MemberElement(S, e) ==
    /\ e.k = "Empty"
    /\ Contains(get_children_tags(S), e.name)
    /\ LET fa == FieldsSummary(ChildOfTag(S, e.name).t).attrs
       IN  /\ Len(e.attrs) = Len(fa)
           /\ \A i \in 1..Len(fa) :
                  /\ e.attrs[i][1] = fa[i].name
                  /\ ValueDeserialize(fa[i].t, e.attrs[i][2]).ok

(* The document is the root element of T around one element for each      *)
(* child tag of its untagged struct, in any order.                         *)
RouteDoc(T, d) ==
    /\ Len(FieldsSummary(T).untagged_structs) = 1
    /\ Len(d) = Len(get_children_tags(UntaggedStructField(T).t)) + 2
    /\ d[1] = Start(Container(T).root[1], <<>>)
    /\ d[Len(d)] = End(Container(T).root[1])
    /\ \A i \in 2..(Len(d) - 1) : MemberElement(UntaggedStructField(T).t, d[i])
    /\ \A i, j \in 2..(Len(d) - 1) : d[i].name = d[j].name => i = j

(* C25: every child element whose tag is a child tag of the absorbing      *)
(* struct is captured and handed to that struct, whatever the order in     *)
(* which the struct declares its children: the call returns the struct     *)
(* with each child read from the element of its tag.                       *)
C25_UntaggedStructRouting ==
    (phase = "deserialized" /\ RouteDoc(root, doc))
        => /\ res.st = "ok"
           /\ LET f == UntaggedStructField(root)
              IN  \A i \in 2..(Len(doc) - 1) :
                      LET c == ChildOfTag(f.t, doc[i].name)
                          a == FieldsSummary(c.t).attrs[1]
                      IN  rec[1][f.ident][c.ident][a.ident]
                              = ValueDeserialize(a.t, doc[i].attrs[1][2]).v[1]

----------------------------------------------------------------------------
(* The derive macros at work on a declaration (src/derives/src): a struct  *)
(* with its fields or an enum with its variants is declared, with or       *)
(* without the root and deny_unknown_fields attributes, and one of the     *)
(* derives is expanded on it.  The expansion returns the impl block or     *)
(* panics.  Here root is the kind of the item, doc its fields or variants  *)
(* as written, rec the attributes of the item, out the derive expanded,    *)
(* and res its outcome.                                                    *)

MaxFields == 2

MaxVariants == 2

MaxPayload == 2

Built == [st |-> "ok", v |-> <<>>, pos |-> 0, msg |-> <<>>]

Rejected(m) == [st |-> "panic", v |-> <<>>, pos |-> 0, msg |-> <<m>>]

(* A field as written: its ty, its name if any, and the shape of its type. *)
DeclField(ty, name, generic) ==
    [ty |-> ty, name |-> name, generic |-> generic, skip_serializing |-> FALSE]

FieldDecls ==
    {DeclField(ty, n, g) :
        ty \in {"Attr", "Child", "Text", "SelfClosedChild", "Untag", "UntaggedEnum",
                "UntaggedStruct"},
        n \in {None, Some("n")},
        g \in {"None", "Vec"}}

(* A variant as written: its ty, its name if any, its number of fields.    *)
VariantDecls ==
    {[ele_type |-> e, name |-> n, fields |-> k] :
        e \in {"Child", "Text"}, n \in {None, Some("n")}, k \in 0..MaxPayload}

(* EnumVariant::from_ast: the message of its panic, "" when it returns.    *)
EnumVariant_from_ast(v) ==
    IF v.fields > 1 THEN "only support 1 field"
    ELSE IF v.ele_type = "Text" /\ v.name # None THEN "should omit the name"
    ELSE IF v.ele_type # "Text" /\ v.name = None THEN "should have name"
    ELSE ""

(* The EnumVariant that from_ast returns: ty is the type of the one field. *)
EnumVariantOf(v) ==
    [name |-> v.name, ele_type |-> v.ele_type,
     ty |-> IF v.fields = 0 THEN None ELSE Some("T")]

(* Container::from_ast *)
Container_from_ast(kind, decl, attrs) ==
    Bind(IF kind = "enum" THEN FirstIdx(decl, LAMBDA v : EnumVariant_from_ast(v) # "")
         ELSE 0, LAMBDA k :
        IF k # 0 THEN [st |-> "panic", msg |-> EnumVariant_from_ast(decl[k])]
        ELSE [st |-> "ok", msg |-> "",
              struct_fields |-> IF kind = "struct" THEN decl ELSE <<>>,
              enum_variants |-> IF kind = "enum"
                                THEN [i \in 1..Len(decl) |-> EnumVariantOf(decl[i])]
                                ELSE <<>>,
              root |-> attrs.root,
              deny_unknown |-> attrs.deny_unknown])

(* StructField::validate: whether it panics.                               *)
StructField_validate(f) ==
    f.ty \in {"Untag", "UntaggedEnum", "UntaggedStruct"} /\ f.name # None

(* A variant of Container::validate without the test of deny_unknown.      *)
Container_validate_no_deny(c) ==
    IF c.root /\ Len(c.enum_variants) > 0
    THEN "for clarity, enum should not have the root attribute"
    ELSE IF \E i \in 1..Len(c.struct_fields) : StructField_validate(c.struct_fields[i])
    THEN "untagged types doesn't need a name"
    ELSE ""

(* Container::validate: the message of its panic, "" when it returns.      *)
Container_validate(c) ==
    IF c.root /\ Len(c.enum_variants) > 0
    THEN "for clarity, enum should not have the root attribute"
    ELSE IF c.deny_unknown /\ Len(c.enum_variants) > 0
    THEN "deny_unknown_fields is not supported in enum type"
    ELSE IF \E i \in 1..Len(c.struct_fields) : StructField_validate(c.struct_fields[i])
    THEN "untagged types doesn't need a name"
    ELSE ""

(* FieldsSummary::from_fields on the fields as written.                    *)
from_fields(fs) ==
    [children |-> SelectSeq(fs, LAMBDA f : f.ty = "Child"),
     text |-> Bind(SelectSeq(fs, LAMBDA f : f.ty = "Text"), LAMBDA texts :
                  IF texts = <<>> THEN None ELSE Some(texts[Len(texts)])),
     attrs |-> SelectSeq(fs, LAMBDA f : f.ty = "Attr"),
     self_closed_children |-> SelectSeq(fs, LAMBDA f : f.ty = "SelfClosedChild"),
     untagged_enums |-> SelectSeq(fs, LAMBDA f : f.ty \in {"Untag", "UntaggedEnum"}),
     untagged_structs |-> SelectSeq(fs, LAMBDA f : f.ty = "UntaggedStruct")]

Unnamed(fs) == \E i \in 1..Len(fs) : fs[i].name = None

(* build_attr_and_push at expansion: the panic of the first attribute      *)
(* field that has one.                                                     *)
build_attr_and_push_panic(attrs) ==
    Bind(FirstIdx(attrs, LAMBDA f : f.name = None \/ f.generic = "Vec"), LAMBDA k :
        IF k = 0 THEN ""
        ELSE IF attrs[k].name = None THEN "called Option::unwrap() on a None value"
        ELSE "cannot use a vector in attribute")

(* get_ser_struct_impl_block: the message of its panic, "" when it returns *)
(* the impl block.                                                         *)
get_ser_struct_impl_block(c) ==
    Bind(from_fields(c.struct_fields), LAMBDA s :
        IF s.text # None /\ (Len(s.children) > 0 \/ Len(s.self_closed_children) > 0
                             \/ Len(s.untagged_enums) > 0)
        THEN "Cannot have the text and children at the same time."
        ELSE IF s.text = None /\ Unnamed(s.self_closed_children) THEN "should have name"
        ELSE IF s.text = None
                /\ Unnamed(SelectSeq(s.children, LAMBDA f : ~f.skip_serializing))
        THEN "should have name"
        ELSE build_attr_and_push_panic(s.attrs))

(* get_ser_enum_impl_block *)
get_ser_enum_impl_block(c) ==
    IF \E i \in 1..Len(c.enum_variants) :
           c.enum_variants[i].ty = None /\ c.enum_variants[i].name = None
    THEN "should have name"
    ELSE ""

(* get_de_struct_impl_block *)
get_de_struct_impl_block(c) ==
    Bind(from_fields(c.struct_fields), LAMBDA s :
        IF s.text # None /\ s.text[1].generic = "Vec"
        THEN "text element should not be Vec<T>"
        ELSE IF \E i \in 1..Len(s.untagged_structs) : s.untagged_structs[i].generic = "Vec"
        THEN "internal error: entered unreachable code"
        ELSE IF Unnamed(s.children) THEN "should have name"
        ELSE IF Unnamed(s.self_closed_children)
        THEN "called Option::unwrap() on a None value"
        ELSE IF Unnamed(s.attrs) THEN "should have a field name"
        ELSE "")

(* get_de_enum_impl_block *)
get_de_enum_impl_block(c) ==
    Bind(SelectSeq(c.enum_variants, LAMBDA v : v.ele_type = "Text"), LAMBDA texts :
        IF texts = <<>> THEN ""
        ELSE IF texts[1].ty = None THEN "expect type"
        ELSE IF Len(texts) > 1 THEN "should only have one text type"
        ELSE "")

(* The body of both derives: from_ast, validate, and the impl block of the *)
(* kind.                                                                   *)
Expand(c, block_struct, block_enum) ==
    IF c.st = "panic" THEN Rejected(c.msg)
    ELSE IF Container_validate(c) # "" THEN Rejected(Container_validate(c))
    ELSE IF Len(c.enum_variants) > 0
    THEN IF block_enum # "" THEN Rejected(block_enum) ELSE Built
    ELSE IF block_struct # "" THEN Rejected(block_struct) ELSE Built

(* get_ser_impl_block *)
get_ser_impl_block(kind, decl, attrs) ==
    Bind(Container_from_ast(kind, decl, attrs), LAMBDA c :
        Expand(c, IF c.st = "ok" THEN get_ser_struct_impl_block(c) ELSE "",
                  IF c.st = "ok" THEN get_ser_enum_impl_block(c) ELSE ""))

(* get_de_impl_block *)
get_de_impl_block(kind, decl, attrs) ==
    Bind(Container_from_ast(kind, decl, attrs), LAMBDA c :
        Expand(c, IF c.st = "ok" THEN get_de_struct_impl_block(c) ELSE "",
                  IF c.st = "ok" THEN get_de_enum_impl_block(c) ELSE ""))

InitSchema ==
    /\ root \in {"struct", "enum"}
    /\ doc = <<>>
    /\ phase = "declaring"
    /\ rec \in {Some([root |-> r, deny_unknown |-> d]) : r \in BOOLEAN, d \in BOOLEAN}
    /\ res = NoResult
    /\ out = <<>>

(* One more field is written in the struct.                                *)
DeclareField ==
    /\ phase = "declaring"
    /\ root = "struct"
    /\ Len(doc) < MaxFields
    /\ \E f \in FieldDecls : doc' = Append(doc, f)
    /\ UNCHANGED <<root, phase, rec, res, out>>

(* One more variant is written in the enum.                                *)
DeclareVariant ==
    /\ phase = "declaring"
    /\ root = "enum"
    /\ Len(doc) < MaxVariants
    /\ \E v \in VariantDecls : doc' = Append(doc, v)
    /\ UNCHANGED <<root, phase, rec, res, out>>

(* #[derive(XmlSerialize)] is expanded on the item.                        *)
DeriveXmlSerialize ==
    /\ phase = "declaring"
    /\ res' = get_ser_impl_block(root, doc, rec[1])
    /\ out' = <<"XmlSerialize">>
    /\ phase' = "derived"
    /\ UNCHANGED <<root, doc, rec>>

(* #[derive(XmlDeserialize)] is expanded on the item.                      *)
DeriveXmlDeserialize ==
    /\ phase = "declaring"
    /\ res' = get_de_impl_block(root, doc, rec[1])
    /\ out' = <<"XmlDeserialize">>
    /\ phase' = "derived"
    /\ UNCHANGED <<root, doc, rec>>

NextSchema ==
    \/ DeclareField
    \/ DeclareVariant
    \/ DeriveXmlSerialize
    \/ DeriveXmlDeserialize

SpecSchema == InitSchema /\ [][NextSchema]_vars

----------------------------------------------------------------------------
(* The struct declares a text field beside a named child, a flag, or an    *)
(* untagged field.                                                         *)
TextConflict(decl) ==
    /\ \E i \in 1..Len(decl) : decl[i].ty = "Text"
    /\ \E i \in 1..Len(decl) :
           decl[i].ty \in {"Child", "SelfClosedChild", "Untag", "UntaggedEnum",
                           "UntaggedStruct"}

(* C26: the expansion of either derive fails on a struct that declares a   *)
(* text field beside a named child, a self-closing flag, an untagged       *)
(* variant field or an untagged struct field.                              *)
C26_TextConflictRejected ==
    (phase = "derived" /\ root = "struct" /\ TextConflict(doc)) => res.st = "panic"

----------------------------------------------------------------------------
(* The defects of a declaration: an untagged field with a name, a variant  *)
(* with more than one field, deny_unknown_fields on an enum.               *)
UntaggedNamed(decl) ==
    \E i \in 1..Len(decl) :
        decl[i].ty \in {"Untag", "UntaggedEnum", "UntaggedStruct"} /\ decl[i].name # None

ManyPayloads(decl) == \E i \in 1..Len(decl) : decl[i].fields > 1

ListedDefectStated ==
    IF root = "struct" THEN UntaggedNamed(doc)
    ELSE ManyPayloads(doc) \/ rec[1].deny_unknown

(* The same, deny_unknown_fields counting on an enum that has a variant    *)
(* (Container::is_enum tells an enum by its variants).                     *)
ListedDefect ==
    IF root = "struct" THEN UntaggedNamed(doc)
    ELSE ManyPayloads(doc) \/ (rec[1].deny_unknown /\ Len(doc) > 0)

(* The fields of the given types in a struct as written.                   *)
OfTy(decl, tys) == SelectSeq(decl, LAMBDA f : f.ty \in tys)

(* What else makes an expansion panic.  On an enum with a variant: the     *)
(* root attribute; on an enum: a                                           *)
(* child variant without a name, a text variant with one, a text variant   *)
(* without a field, and for XmlDeserialize a second text variant.  On a    *)
(* struct: an attribute, and where its name is used a child or a flag,     *)
(* without a name; for XmlSerialize a text field beside a child, a flag or *)
(* an untagged variant field, and a Vec attribute; for XmlDeserialize a    *)
(* Vec as the text field or as an untagged struct field.                   *)
OtherDefect(derive) ==
    IF root = "enum"
    THEN \/ rec[1].root /\ Len(doc) > 0
         \/ \E i \in 1..Len(doc) :
                \/ doc[i].ele_type = "Child" /\ doc[i].name = None
                \/ doc[i].ele_type = "Text" /\ doc[i].name # None
                \/ doc[i].ele_type = "Text" /\ doc[i].fields = 0
         \/ /\ derive = "XmlDeserialize"
            /\ Len(SelectSeq(doc, LAMBDA v : v.ele_type = "Text")) > 1
    ELSE LET texts == OfTy(doc, {"Text"})
             named == IF derive = "XmlSerialize" /\ texts # <<>> THEN {"Attr"}
                      ELSE {"Attr", "Child", "SelfClosedChild"}
         IN  \/ Unnamed(OfTy(doc, named))
             \/ /\ derive = "XmlSerialize"
                /\ \/ /\ texts # <<>>
                      /\ OfTy(doc, {"Child", "SelfClosedChild", "Untag", "UntaggedEnum"})
                             # <<>>
                   \/ \E i \in 1..Len(doc) : doc[i].ty = "Attr" /\ doc[i].generic = "Vec"
             \/ /\ derive = "XmlDeserialize"
                /\ \/ texts # <<>> /\ texts[Len(texts)].generic = "Vec"
                   \/ \E i \in 1..Len(doc) :
                          doc[i].ty = "UntaggedStruct" /\ doc[i].generic = "Vec"

----------------------------------------------------------------------------
(* C28: for a record type with a default or a prefixed namespace, under    *)
(* either unknown-field policy, reading the output of serialize succeeds   *)
(* and returns the record written: the xmlns attributes are never unknown  *)
(* fields.                                                                 *)
C28_NsTransparent ==
    (phase = "reread" /\ NsAttrs(root) # <<>>)
        => res.st = "ok" /\ res.v = rec

----------------------------------------------------------------------------
(* The fields of T that are candidates for a child element of tag t: the   *)
(* named children of that name, then the untagged variant fields, then the *)
(* untagged struct fields, whose tag sets hold t; each group in field      *)
(* order.                                                                  *)
Candidates(T, t) ==
    SelectSeq(FieldsSummary(T).children, LAMBDA f : f.name = t)
    \o SelectSeq(FieldsSummary(T).untagged_enums,
                 LAMBDA f : Contains(get_children_tags(f.t), t))
    \o SelectSeq(FieldsSummary(T).untagged_structs,
                 LAMBDA f : Contains(get_children_tags(f.t), t))

(* The type that reads an element of tag t given to the field f.           *)
ReaderType(f, t) ==
    IF f.ty = "Child" THEN f.t
    ELSE IF f.ty = "UntaggedStruct" THEN ChildOfTag(f.t, t).t
    ELSE VariantOfTag(f.t, t).ty[1]

(* The self-closed element e carries the attributes of the type R, each of *)
(* a value its conversion accepts.                                         *)
SuitsType(R, e) ==
    /\ e.k = "Empty"
    /\ Len(e.attrs) = Len(FieldsSummary(R).attrs)
    /\ \A i \in 1..Len(e.attrs) :
           /\ e.attrs[i][1] = FieldsSummary(R).attrs[i].name
           /\ ValueDeserialize(FieldsSummary(R).attrs[i].t, e.attrs[i][2]).ok

(* The record of type R read from the attributes of the element e.         *)
ElementValue(R, e) ==
    [id \in Idents(FieldsSummary(R).attrs) |->
        LET i == CHOOSE i \in 1..Len(e.attrs) :
                     e.attrs[i][1] = FieldOf(FieldsSummary(R).attrs, id).name
        IN  ValueDeserialize(FieldOf(FieldsSummary(R).attrs, id).t, e.attrs[i][2]).v[1]]

(* The optional field f of the record v holds the value of the element e.  *)
Holds(f, v, e) ==
    IF v[f.ident] = None THEN FALSE
    ELSE IF f.ty = "Child" THEN v[f.ident][1] = ElementValue(f.t, e)
    ELSE IF f.ty = "UntaggedStruct"
    THEN v[f.ident][1][ChildOfTag(f.t, e.name).ident]
             = Some(ElementValue(ChildOfTag(f.t, e.name).t, e))
    ELSE v[f.ident][1] = [ident |-> VariantOfTag(f.t, e.name).ident,
                          payload |-> Some(ElementValue(VariantOfTag(f.t, e.name).ty[1], e))]

(* The optional field f of the record v holds a value read from an element *)
(* of tag t.                                                               *)
Took(f, v, t) ==
    IF v[f.ident] = None THEN FALSE
    ELSE IF f.ty = "Child" THEN TRUE
    ELSE IF f.ty = "UntaggedStruct"
    THEN v[f.ident][1][ChildOfTag(f.t, t).ident] # None
    ELSE v[f.ident][1].ident = VariantOfTag(f.t, t).ident

(* The document is the root element of T, all of whose body fields are     *)
(* optional, around self-closed elements of distinct tags, each with a     *)
(* candidate field and the attributes of the type its first candidate      *)
(* reads.                                                                  *)
DispatchDoc(T, d) ==
    /\ \A i \in 1..Len(Container(T).struct_fields) :
           Container(T).struct_fields[i].generic = "Opt"
    /\ Len(FieldsSummary(T).untagged_enums) > 0
    /\ Len(FieldsSummary(T).untagged_structs) > 0
    /\ Len(d) >= 3
    /\ d[1] = Start(Container(T).root[1], <<>>)
    /\ d[Len(d)] = End(Container(T).root[1])
    /\ \A i \in 2..(Len(d) - 1) :
           /\ d[i].k = "Empty"
           /\ Candidates(T, d[i].name) # <<>>
           /\ SuitsType(ReaderType(Candidates(T, d[i].name)[1], d[i].name), d[i])
    /\ \A i, j \in 2..(Len(d) - 1) : d[i].name = d[j].name => i = j

(* C29: a child element is given to the first field that matches its tag,  *)
(* the named children first, then the untagged variant fields in field     *)
(* order, then the untagged struct fields in field order, and to no other: *)
(* a tag that names a child and is in the tag set of an untagged field     *)
(* goes to the named child.                                                *)
C29_DispatchOrder ==
    (phase = "deserialized" /\ DispatchDoc(root, doc))
        => /\ res.st = "ok"
           /\ \A i \in 2..(Len(doc) - 1) :
                  LET cs == Candidates(root, doc[i].name)
                  IN  /\ Holds(cs[1], rec[1], doc[i])
                      /\ \A k \in 2..Len(cs) : ~Took(cs[k], rec[1], doc[i].name)

(* An element of each tag has been read: a goes to the named child, b to   *)
(* the untagged variant field, c to the untagged struct.                   *)
C29_Witness ==
    /\ root = "Disp"
    /\ phase = "deserialized"
    /\ doc = <<Start("d", <<>>), Empty("c", Attr2(<<"2">>)), Empty("b", BAttr(<<"5">>)),
               Empty("a", Attr1(<<"1">>)), End("d")>>
    /\ res.st = "ok"
    /\ rec[1].a = Some([attr1 |-> 1])
    /\ rec[1].u = Some([ident |-> "B1", payload |-> Some([b_attr1 |-> 5])])
    /\ rec[1].bar = Some([a |-> None, b |-> None, c |-> Some([attr2 |-> 2])])

----------------------------------------------------------------------------
(* The elements of tag t directly inside the root element of d, in         *)
(* document order.                                                         *)
Occurrences(d, t) == SelectSeq(SubSeq(d, 2, Len(d) - 1), LAMBDA e : e.name = t)

(* The document is the root element of T, a record of named children,      *)
(* around self-closed elements of its children, each with the attributes   *)
(* of the child's type; a bare child occurs at least once.                 *)
ArityDoc(T, d) ==
    /\ Len(FieldsSummary(T).children) = Len(Container(T).struct_fields)
    /\ Len(d) >= 3
    /\ d[1] = Start(Container(T).root[1], <<>>)
    /\ d[Len(d)] = End(Container(T).root[1])
    /\ \A i \in 2..(Len(d) - 1) :
           \E k \in 1..Len(FieldsSummary(T).children) :
               /\ FieldsSummary(T).children[k].name = d[i].name
               /\ SuitsType(FieldsSummary(T).children[k].t, d[i])
    /\ \A k \in 1..Len(FieldsSummary(T).children) :
           FieldsSummary(T).children[k].generic = "None"
               => Occurrences(d, FieldsSummary(T).children[k].name) # <<>>

(* C30: a Vec child holds one element for each matching child element, in  *)
(* document order; an optional or a bare child holds the value of the last *)
(* matching child element, and an optional child without one is None.      *)
C30_ArityWrapping ==
    (phase = "deserialized" /\ ArityDoc(root, doc))
        => /\ res.st = "ok"
           /\ \A k \in 1..Len(FieldsSummary(root).children) :
                  LET f == FieldsSummary(root).children[k]
                      occ == Occurrences(doc, f.name)
                      x == rec[1][f.ident]
                  IN  IF f.generic = "Vec"
                      THEN x = [i \in 1..Len(occ) |-> ElementValue(f.t, occ[i])]
                      ELSE IF f.generic = "Opt"
                      THEN x = IF occ = <<>> THEN None
                               ELSE Some(ElementValue(f.t, occ[Len(occ)]))
                      ELSE x = ElementValue(f.t, occ[Len(occ)])

(* A bare child that occurs twice holds the value of the second element.   *)
C30_Witness ==
    /\ root = "Arity"
    /\ phase = "deserialized"
    /\ doc = <<Start("r", <<>>), Empty("b", AgeAttr(<<"1">>)), Empty("v", AgeAttr(<<"2">>)),
               Empty("b", AgeAttr(<<"2">>)), End("r")>>
    /\ res.st = "ok"
    /\ rec[1].b = [age |-> 2]
    /\ rec[1].v = <<[age |-> 2]>>

----------------------------------------------------------------------------
(* Records with a field of every initial value.                            *)
InitInits == InitOf({"Inits", "Namespace", "Note"})

SpecInit == InitInits /\ [][Next]_vars

(* The document supplies nothing for the field f of the root element at i: *)
(* no attribute of its name, no element of its name, no text.              *)
Unsupplied(f, d, i) ==
    CASE f.ty = "Attr" -> f.name \notin AttrKeys(d[i])
      [] f.ty \in {"Child", "SelfClosedChild"} ->
           \A j \in (i + 1)..Len(d) : ~(IsElement(d[j]) /\ d[j].name = f.name)
      [] f.ty = "Text" -> \A j \in (i + 1)..Len(d) : d[j].k # "Text"
      [] OTHER -> FALSE

InitialValue(f) ==
    IF f.default # None THEN f.default[1]
    ELSE IF f.ty = "SelfClosedChild" THEN FALSE
    ELSE IF f.generic = "Vec" THEN <<>>
    ELSE None

(* C31: in the record returned, a field for which the document supplies    *)
(* nothing holds its default provider's value if it declares one, else     *)
(* None (optional attribute or child), the empty sequence (repeated child) *)
(* or false (self-closing flag).                                           *)
C31_InitialValues ==
    (phase = "deserialized" /\ res.st = "ok")
        => /\ RootIdx(doc, RootTag) # 0
           /\ \A k \in 1..Len(Container(root).struct_fields) :
                  LET f == Container(root).struct_fields[k]
                  IN  Unsupplied(f, doc, RootIdx(doc, RootTag))
                          => rec[1][f.ident] = InitialValue(f)

(* An element without attributes and children: every field is initial.     *)
C31_Witness ==
    /\ root = "Inits"
    /\ phase = "deserialized"
    /\ doc = <<Start("i", <<>>), End("i")>>
    /\ res.st = "ok"
    /\ rec[1] = [age |-> default_age, name |-> None, v |-> <<>>, o |-> None]

----------------------------------------------------------------------------
(* One call of deserialize, as a parent makes it for a child element: the  *)
(* reader stands after the element's start (or empty-element) event, which *)
(* is the first event of doc, and the call gets the element's name, its    *)
(* attributes and whether it is self-closing.  The events that follow are  *)
(* the rest of the stream.                                                 *)
CallTypes == {"Owner", "ParameterType", "Unparsed"}

InitCall == InitOf(CallTypes)

DeserializeCall ==
    /\ phase = "input"
    /\ Len(doc) >= 1
    /\ IsElement(doc[1])
    /\ res' = Deserialize(root, doc[1].name, doc, 1, doc[1].attrs, doc[1].k = "Empty")
    /\ rec' = res'.v
    /\ phase' = "called"
    /\ UNCHANGED <<root, doc, out>>

(* The same element captured as Unparsed and given to deserialize_to for   *)
(* the type of the call; the Result is kept in out.                        *)
DeserializeTo ==
    /\ phase = "called"
    /\ out' = deserialize_to(root,
                   UnparsedDeserialize(doc[1].name, doc, 1, doc[1].attrs,
                                       doc[1].k = "Empty").v[1])
    /\ phase' = "reinterpreted"
    /\ UNCHANGED <<root, doc, rec, res>>

NextCall ==
    \/ InputStart
    \/ InputEmpty
    \/ InputEnd
    \/ InputText
    \/ InputErr
    \/ DeserializeCall
    \/ DeserializeTo

SpecCall == InitCall /\ [][NextCall]_vars

(* C32: a call of deserialize for a self-closing element, of a derived     *)
(* struct, a derived enum or Unparsed, reads no event: the reader stands   *)
(* after the call where it stood before it.                                *)
C32_SelfClosingReadsNothing ==
    (phase = "called" /\ doc[1].k = "Empty") => res.pos = 1

(* C33: when deserialize returns for an element that is not self-closing   *)
(* and is closed in the stream, the reader has consumed the events up to   *)
(* and including the end tag that closes the element, and no more: an end  *)
(* tag of the same name inside it does not end the call, and a call for a  *)
(* record, an enum variant (unit variants too) or Unparsed does not return *)
(* before that end tag.                                                    *)
C33_StreamPosition ==
    (/\ phase = "called"
     /\ res.st = "ok"
     /\ doc[1].k = "Start"
     /\ CloseIdx(doc, 1) # 0
     /\ NoReadErr(SubSeq(doc, 1, CloseIdx(doc, 1))))
        => res.pos = CloseIdx(doc, 1)

(* The reader reports its first read error at the last event of d, inside  *)
(* the element that starts at the first event.                             *)
ErrInBody(d) ==
    /\ Len(d) >= 2
    /\ d[1].k = "Start"
    /\ d[Len(d)].k = "Err"
    /\ NoReadErr(SubSeq(d, 1, Len(d) - 1))
    /\ CloseIdx(SubSeq(d, 1, Len(d) - 1), 1) = 0

(* C34: when the reader reports a read error while the body of a record or *)
(* of an Unparsed capture is being read, the call of deserialize fails: it *)
(* returns no value built from the events seen before the error.           *)
C34_NoPartialRecord ==
    (phase = "called" /\ ErrInBody(doc)) => res.st # "ok"

(* The events w, read from event i on with the elements of open still to   *)
(* be closed (innermost last), are balanced: every end event closes the    *)
(* innermost open start event and has its name, and none is left open.     *)
RECURSIVE Balanced(_, _, _)
Balanced(w, i, open) ==
    IF i > Len(w) THEN open = <<>>
    ELSE IF w[i].k = "Start" THEN Balanced(w, i + 1, Append(open, w[i].name))
    ELSE IF w[i].k = "End"
    THEN /\ open # <<>>
         /\ open[Len(open)] = w[i].name
         /\ Balanced(w, i + 1, SubSeq(open, 1, Len(open) - 1))
    ELSE Balanced(w, i + 1, open)

(* C35: the events that serialize writes are balanced, for every value,    *)
(* records that hold an Unparsed obtained by deserialization included.     *)
C35_WellFormedOutput ==
    phase = "serialized" => Balanced(out, 1, <<>>)

(* The events written for the fields of type Unparsed of the record v of   *)
(* type T, field after field: the captured events between a start and an   *)
(* end event that carry the field's name, the start with the captured      *)
(* attributes, or one empty-element event when nothing was captured.       *)
RECURSIVE UnparsedReplay(_, _, _)
UnparsedReplay(T, v, k) ==
    IF k > Len(Container(T).struct_fields) THEN <<>>
    ELSE LET f == Container(T).struct_fields[k]
             u == v[f.ident]
         IN  (IF u.data # <<>>
              THEN <<Start(f.name, u.attrs)>> \o u.data \o <<End(f.name)>>
              ELSE <<Empty(f.name, u.attrs)>>)
             \o UnparsedReplay(T, v, k + 1)

(* The type is a record whose fields are all bare children of type         *)
(* Unparsed.                                                               *)
HoldsUnparsedOnly(T) ==
    /\ Container(T).kind = "struct"
    /\ Container(T).struct_fields # <<>>
    /\ \A k \in 1..Len(Container(T).struct_fields) :
           LET f == Container(T).struct_fields[k]
           IN  f.ty = "Child" /\ f.generic = "None" /\ f.t = "Unparsed"

(* C36: Unparsed::serialize(tag) writes, when an event was captured, a     *)
(* start event for tag with the captured attributes in captured order, the *)
(* captured events in order and the end event for tag; when none was       *)
(* captured, one empty-element event for tag with the captured attributes. *)
C36_UnparsedReplay ==
    (phase = "serialized" /\ HoldsUnparsedOnly(root))
        => LET w == IF out[1].k = "Decl" THEN Tail(out) ELSE out
           IN  w = <<Start(RootTag, <<>>)>> \o UnparsedReplay(root, rec[1], 1)
                       \o <<End(RootTag)>>

(* A capture of two attributes and no event is written as one empty        *)
(* element, and a capture of two events between a start and an end event.  *)
C36_Witness ==
    /\ phase = "serialized"
    /\ root = "TestA"
    /\ \/ /\ rec[1].others = [data |-> <<>>,
                              attrs |-> NameAttr(<<"x">>) \o AgeAttr(<<"1">>)]
          /\ out = <<Start("TestA", <<>>),
                     Empty("others", NameAttr(<<"x">>) \o AgeAttr(<<"1">>)),
                     End("TestA")>>
       \/ /\ rec[1].others = [data |-> <<Start("others", NoAttrs), End("others")>>,
                              attrs |-> AgeAttr(<<"1">>)]
          /\ out = <<Start("TestA", <<>>), Start("others", AgeAttr(<<"1">>)),
                     Start("others", NoAttrs), End("others"), End("others"),
                     End("TestA")>>

(* The events of d are one element and what it holds.                      *)
Subtree(d) ==
    /\ Len(d) >= 1
    /\ IsElement(d[1])
    /\ NoReadErr(d)
    /\ CloseIdx(d, 1) = Len(d)

(* C37: for an element subtree S and a type T, capturing S as Unparsed and *)
(* calling deserialize_to::<T>() yields Ok of the value that T's           *)
(* deserialize yields when it reads S itself.                              *)
C37_Reinterpretation ==
    (phase = "reinterpreted" /\ Subtree(doc) /\ res.st = "ok")
        => (out.st = "ok" /\ out.v = res.v)

----------------------------------------------------------------------------
(* The same deserialization, one call of read_event_into at a step.  The   *)
(* calls that are reading are kept in out, innermost last: the root scan   *)
(* of xml_deserialize_from_reader_with_root, and above it the loops of the *)
(* derived structs, of the derived enums and of Unparsed, each with its    *)
(* local variables and with the place its value goes to (dest).  res.pos   *)
(* is the position of the reader; res.st is "none" while a loop reads.     *)

Reading(p) == [st |-> "none", v |-> <<>>, pos |-> p, msg |-> <<>>]

Config(stack, r) == [stack |-> stack, res |-> r]

ScanFrame(T, rt) == [kind |-> "scan", T |-> T, tag |-> rt]

StructFrame(T, tag, loc, arr, dest) ==
    [kind |-> "struct", T |-> T, tag |-> tag, loc |-> loc, arr |-> arr, dest |-> dest]

EnumFrame(T, tag, dest) == [kind |-> "enum", T |-> T, tag |-> tag, dest |-> dest]

UnparsedFrame(tag, attrs, data, dest) ==
    [kind |-> "unparsed", tag |-> tag, attrs |-> attrs, data |-> data, dest |-> dest]

(* Where the value of a call goes: to the caller of the root scan, to the  *)
(* variable of the field f of the struct below, or to the array of its     *)
(* untagged struct field f; wrap lists the enum variants it is first put   *)
(* in (return Self::ident(_r)), innermost first.                           *)
Dest(to, f, tag) == [to |-> to, f |-> f, tag |-> tag, wrap |-> <<>>]

RECURSIVE WrapVariants(_, _)
WrapVariants(v, wrap) ==
    IF wrap = <<>> THEN v
    ELSE WrapVariants([ident |-> Head(wrap), payload |-> Some(v)], Tail(wrap))

Pop(stack) == SubSeq(stack, 1, Len(stack) - 1)

ReplaceTop(stack, fr) == [stack EXCEPT ![Len(stack)] = fr]

(* A call returns v: the caller stores it and goes on reading.             *)
ReturnTo(stack, v, dest, p) ==
    Bind(WrapVariants(v, dest.wrap), LAMBDA w :
        IF dest.to = "root" THEN Config(<<>>, Returned(w, p))
        ELSE Bind(stack[Len(stack)], LAMBDA fr :
            IF dest.to = "child"
            THEN Config(ReplaceTop(stack,
                     [fr EXCEPT !.loc[dest.f.ident] =
                         WrapChild(dest.f, fr.loc[dest.f.ident], w)]), Reading(p))
            ELSE Bind(get_children_tags(dest.f.t), LAMBDA tags :
                 Bind(binary_search(tags, dest.tag), LAMBDA idx :
                     IF ~idx.ok
                     THEN Config(<<>>,
                              Panicked(<<"called Result::unwrap on an Err value">>, p))
                     ELSE Config(ReplaceTop(stack,
                              [fr EXCEPT !.arr[dest.f.ident] =
                                  Append(fr.arr[dest.f.ident],
                                         <<tags[idx.v[1] + 1], w>>)]), Reading(p))))))

(* The end of a struct's deserialize, after its loop (or at once for a     *)
(* self-closing element): the untagged struct fields, then Self { .. }.    *)
FinishStruct(stack, T, loc, arr, dest, p) ==
    Bind(get_untagged_struct_fields_result(
             FieldsSummary(T).untagged_structs, 1, loc, arr, p), LAMBDA c :
        IF c.st = "panic" THEN Config(<<>>, Panicked(c.msg, c.pos))
        ELSE Bind(get_result(Container(T).struct_fields, c.loc, c.pos), LAMBDA r :
            IF r.st = "panic" THEN Config(<<>>, r)
            ELSE ReturnTo(stack, r.v[1], dest, p)))

(* A call of T::deserialize(tag, reader, attrs, is_empty) up to its first  *)
(* read: a struct reads its attributes and enters its loop unless the      *)
(* element is self-closing; an enum called under the tag of a variant      *)
(* calls the payload's deserialize (or returns the unit variant), under    *)
(* another tag it enters its loop; Unparsed enters its loop unless the     *)
(* element is self-closing.                                                *)
RECURSIVE CallDeserialize(_, _, _, _, _, _, _)
CallDeserialize(stack, T, tag, attrs, is_empty, dest, p) ==
    Bind(Container(T), LAMBDA c :
        IF c.kind = "struct"
        THEN Bind(get_fields_init(T), LAMBDA i0 :
             Bind(ReadAttrs(T, attrs, 1, i0.loc, i0.arr, p), LAMBDA a :
                 IF a.st = "panic" THEN Config(<<>>, Panicked(a.msg, a.pos))
                 ELSE IF is_empty THEN FinishStruct(stack, T, a.loc, a.arr, dest, p)
                 ELSE Config(Append(stack, StructFrame(T, tag, a.loc, a.arr, dest)),
                             Reading(p))))
        ELSE IF c.kind = "enum"
        THEN Bind(VariantIdx(T, tag), LAMBDA k :
                 IF k = 0 THEN Config(Append(stack, EnumFrame(T, tag, dest)), Reading(p))
                 ELSE IF c.enum_variants[k].ty = None
                 THEN ReturnTo(stack, [ident |-> c.enum_variants[k].ident,
                                       payload |-> None], dest, p)
                 ELSE CallDeserialize(stack, c.enum_variants[k].ty[1],
                          c.enum_variants[k].name, attrs, is_empty,
                          [dest EXCEPT !.wrap = <<c.enum_variants[k].ident>> \o @], p))
        ELSE IF is_empty
        THEN ReturnTo(stack, [data |-> <<>>, attrs |-> attrs], dest, p)
        ELSE Config(Append(stack, UnparsedFrame(tag, attrs, <<>>, dest)), Reading(p)))

(* One iteration of the loop of xml_deserialize_from_reader_with_root.     *)
StepScan(stack, fr, ev, q) ==
    IF ev.k \in {"Start", "Empty"} /\ ev.name = fr.tag
    THEN CallDeserialize(stack, fr.T, fr.tag, ev.attrs, ev.k = "Empty",
                         Dest("root", <<>>, fr.tag), q)
    ELSE IF ev.k = "Eof"
    THEN Config(<<>>, Failed(<<"Cannot find the element: ", fr.tag>>, q))
    ELSE IF ev.k = "Err" THEN Config(<<>>, Failed(<<"read error">>, q))
    ELSE Config(stack, Reading(q))

(* A variant of the iteration of a struct's loop without the arm           *)
(* Ok(Event::Eof) => break: Eof falls to the catch-all arm.                *)
StepStruct_no_eof(stack, fr, ev, d, q) ==
    IF (ev.k = "End" /\ ev.name = fr.tag) \/ ev.k = "Err"
    THEN FinishStruct(Pop(stack), fr.T, fr.loc, fr.arr, fr.dest, q)
    ELSE Bind(FieldsSummary(fr.T), LAMBDA s :
         Bind(FirstIdx(s.self_closed_children, LAMBDA f : f.name = ev.name), LAMBDA ksfc :
         Bind(FirstIdx(s.children, LAMBDA f : f.name = ev.name), LAMBDA kc :
         Bind(FirstIdx(s.untagged_enums,
                       LAMBDA f : Contains(get_children_tags(f.t), ev.name)), LAMBDA ke :
         Bind(FirstIdx(s.untagged_structs,
                       LAMBDA f : Contains(get_children_tags(f.t), ev.name)), LAMBDA ks :
             IF ev.k \in {"Start", "Empty"} /\ ~(ev.k = "Empty" /\ ksfc # 0)
                /\ (kc # 0 \/ ke # 0 \/ ks # 0)
             THEN Bind(IF kc # 0 THEN Dest("child", s.children[kc], ev.name)
                       ELSE IF ke # 0 THEN Dest("child", s.untagged_enums[ke], ev.name)
                       ELSE Dest("arr", s.untagged_structs[ks], ev.name), LAMBDA dest :
                      CallDeserialize(stack,
                          IF dest.to = "arr" THEN "Unparsed" ELSE dest.f.t,
                          ev.name, ev.attrs, ev.k = "Empty", dest, q))
             ELSE Bind(match_event(fr.T, ev, d, q, fr.loc, fr.arr), LAMBDA r :
                      IF r.st = "panic" THEN Config(<<>>, Panicked(r.msg, r.pos))
                      ELSE Config(ReplaceTop(stack,
                               [fr EXCEPT !.loc = r.loc, !.arr = r.arr]),
                               Reading(q))))))))

(* One iteration of the loop of a derived struct's deserialize: the arms   *)
(* that call a child's deserialize start the call, every other arm is      *)
(* match_event.                                                            *)
StepStruct(stack, fr, ev, d, q) ==
    IF (ev.k = "End" /\ ev.name = fr.tag) \/ ev.k \in {"Eof", "Err"}
    THEN FinishStruct(Pop(stack), fr.T, fr.loc, fr.arr, fr.dest, q)
    ELSE Bind(FieldsSummary(fr.T), LAMBDA s :
         Bind(FirstIdx(s.self_closed_children, LAMBDA f : f.name = ev.name), LAMBDA ksfc :
         Bind(FirstIdx(s.children, LAMBDA f : f.name = ev.name), LAMBDA kc :
         Bind(FirstIdx(s.untagged_enums,
                       LAMBDA f : Contains(get_children_tags(f.t), ev.name)), LAMBDA ke :
         Bind(FirstIdx(s.untagged_structs,
                       LAMBDA f : Contains(get_children_tags(f.t), ev.name)), LAMBDA ks :
             IF ev.k \in {"Start", "Empty"} /\ ~(ev.k = "Empty" /\ ksfc # 0)
                /\ (kc # 0 \/ ke # 0 \/ ks # 0)
             THEN Bind(IF kc # 0 THEN Dest("child", s.children[kc], ev.name)
                       ELSE IF ke # 0 THEN Dest("child", s.untagged_enums[ke], ev.name)
                       ELSE Dest("arr", s.untagged_structs[ks], ev.name), LAMBDA dest :
                      CallDeserialize(stack,
                          IF dest.to = "arr" THEN "Unparsed" ELSE dest.f.t,
                          ev.name, ev.attrs, ev.k = "Empty", dest, q))
             ELSE Bind(match_event(fr.T, ev, d, q, fr.loc, fr.arr), LAMBDA r :
                      IF r.st = "panic" THEN Config(<<>>, Panicked(r.msg, r.pos))
                      ELSE Config(ReplaceTop(stack,
                               [fr EXCEPT !.loc = r.loc, !.arr = r.arr]),
                               Reading(q))))))))

(* One iteration of the loop of a derived enum's deserialize.              *)
StepEnum(stack, fr, ev, q) ==
    Bind(VariantIdx(fr.T, ev.name), LAMBDA k :
        IF (ev.k = "End" /\ ev.name = fr.tag) \/ ev.k \in {"Eof", "Err"}
        THEN Config(<<>>, Panicked(<<"did not find any tag">>, q))
        ELSE IF ev.k \in {"Start", "Empty"} /\ k # 0
        THEN CallDeserialize(Pop(stack), fr.T, ev.name, ev.attrs, ev.k = "Empty",
                             fr.dest, q)
        ELSE Config(stack, Reading(q)))

(* One iteration of the loop of Unparsed::deserialize.                     *)
StepUnparsed(stack, fr, ev, q) ==
    IF (ev.k = "End" /\ ev.name = fr.tag) \/ ev.k \in {"Eof", "Err"}
    THEN ReturnTo(Pop(stack), [data |-> fr.data, attrs |-> fr.attrs], fr.dest, q)
    ELSE Config(ReplaceTop(stack, [fr EXCEPT !.data = Append(@, ev)]), Reading(q))

(* reader.read_event_into(&mut buf) in the innermost loop, and its match.  *)
read_event_into(stack, d, p) ==
    Bind(stack[Len(stack)], LAMBDA fr :
    Bind(ReadEvent(d, p), LAMBDA ev :
        CASE fr.kind = "scan" -> StepScan(stack, fr, ev, Advance(d, p))
          [] fr.kind = "struct" -> StepStruct(stack, fr, ev, d, Advance(d, p))
          [] fr.kind = "enum" -> StepEnum(stack, fr, ev, Advance(d, p))
          [] fr.kind = "unparsed" -> StepUnparsed(stack, fr, ev, Advance(d, p))))

LoopRoots == {"Parameter", "Holder"}

InitLoop == InitOf(LoopRoots)

(* xml_deserialize_from_reader is called on the input read so far.         *)
StartReader ==
    /\ phase = "input"
    /\ phase' = "running"
    /\ out' = <<ScanFrame(root, Container(root).root[1])>>
    /\ res' = Reading(0)
    /\ UNCHANGED <<root, doc, rec>>

(* The innermost loop reads one event.                                     *)
ReadStep ==
    /\ phase = "running"
    /\ \E c \in {read_event_into(out, doc, res.pos)} :
           /\ out' = c.stack
           /\ res' = c.res
           /\ rec' = c.res.v
           /\ phase' = IF c.res.st = "none" THEN "running" ELSE "finished"
    /\ UNCHANGED <<root, doc>>

NextLoop ==
    \/ InputStart
    \/ InputEmpty
    \/ InputEnd
    \/ InputText
    \/ InputErr
    \/ StartReader
    \/ ReadStep

(* A loop that can read does read: the program runs.                       *)
SpecLoop == InitLoop /\ [][NextLoop]_vars /\ WF_vars(ReadStep)

(* The steps end with the outcome of xml_deserialize_from_reader.          *)
StepsAgree ==
    phase = "finished" => res = xml_deserialize_from_reader(root, doc)

(* C38: on a finite event stream, which the reader ends with Eof,          *)
(* xml_deserialize_from_reader and the calls of deserialize nested in it   *)
(* finish, with a record, an error or an abort.                            *)
C38_Termination == (phase = "running") ~> (phase = "finished" /\ out = <<>>)

(* A record returned after the loops of the root scan, of the record, of   *)
(* an enum, of Unparsed and of a nested record have read.                  *)
C38_Witness ==
    /\ phase = "finished"
    /\ res.st = "ok"
    /\ res.pos = Len(doc)
    /\ \/ doc = <<Start("h", <<>>), Start("dummy", <<>>), Empty("varargs", <<>>),
                  End("h")>>
       \/ doc = <<Start("h", <<>>), Start("others", <<>>), End("others"), End("h")>>
       \/ doc = <<Start("h", <<>>), Start("type", NameAttr(<<"n">>)), End("type"),
                  End("h")>>

----------------------------------------------------------------------------
(* Records with children marked skip_serializing.                          *)
InitSkip ==
    /\ root = "Skipping"
    /\ doc = <<>>
    /\ phase = "value"
    /\ rec \in {Some(v) : v \in Values(root)}
    /\ res = NoResult
    /\ out = <<>>

SpecSkip == InitSkip /\ [][NextSer]_vars

(* The fields of T that are not marked skip_serializing.                   *)
KeptIdents(T) ==
    {Container(T).struct_fields[k].ident :
        k \in {j \in 1..Len(Container(T).struct_fields) :
                  ~Container(T).struct_fields[j].skip_serializing}}

(* C39: the output for a record with child fields marked skip_serializing  *)
(* is the output for the same record without those fields, the choice      *)
(* between the self-closed form and the start/end form included.           *)
C39_SkipHasNoEffect ==
    (phase = "serialized" /\ root = "Skipping")
        => LET w == IF out[1].k = "Decl" THEN Tail(out) ELSE out
           IN  w = xml_serialize("Unskipped",
                                 [id \in KeptIdents(root) |-> rec[1][id]])

----------------------------------------------------------------------------
(* #[derive(XmlEnumValue)] (src/derives/src/enum_value.rs): the XmlValue   *)
(* of an enum whose variants declare a literal (rename), several literals  *)
(* (map) or a payload that takes every other string (other).               *)

(* EnumValueVariant::from_variant *)
EnumValueVariant(ident, is_other, is_other_field, rename, map) ==
    [ident |-> ident, is_other |-> is_other, is_other_field |-> is_other_field,
     rename |-> rename, map |-> map]

Renamed(ident, lit) == EnumValueVariant(ident, FALSE, None, Some(lit), <<>>)

Mapped(ident, lits) == EnumValueVariant(ident, FALSE, None, None, lits)

OtherOf(ident, ty) == EnumValueVariant(ident, TRUE, Some(ty), None, <<>>)

(* The variants of the enums that derive XmlEnumValue, in declaration      *)
(* order.  Every enum declares an other variant: without one the generated *)
(* match over &str has no wildcard arm and is rejected by the compiler.    *)
EnumValueVariants(E) ==
    CASE E = "Align" ->
           <<Renamed("Left", <<"l">>), Mapped("Center", <<<<"c">>, <<"m">>>>),
             OtherOf("Other", "String")>>
      [] E = "AlignOtherFirst" ->
           <<OtherOf("Other", "String"), Renamed("Left", <<"l">>),
             Mapped("Center", <<<<"c">>, <<"m">>>>)>>
      [] E = "AlignOtherMid" ->
           <<Renamed("Left", <<"l">>), OtherOf("Other", "String"),
             Mapped("Center", <<<<"c">>, <<"m">>>>)>>
      [] E = "Level" ->
           <<Renamed("Low", <<"l">>), Mapped("High", <<<<"h">>, <<"H">>>>),
             OtherOf("N", "u16")>>
      [] E = "LevelOtherFirst" ->
           <<OtherOf("N", "u16"), Renamed("Low", <<"l">>),
             Mapped("High", <<<<"h">>, <<"H">>>>)>>
      [] E = "Flag" ->
           <<Renamed("Unset", <<"x">>), OtherOf("Is", "bool")>>

EnumValueTypes ==
    {"Align", "AlignOtherFirst", "AlignOtherMid", "Level", "LevelOtherFirst", "Flag"}

(* get_ser_branch: the arm of one variant in serialize.                    *)
get_ser_branch(var, v) ==
    IF var.is_other /\ var.is_other_field # None
    THEN ValueSerialize(var.is_other_field[1], v.payload[1])
    ELSE IF var.map # <<>> THEN var.map[1]
    ELSE var.rename[1]

(* get_de_branch: the arm of one variant in deserialize; None when the     *)
(* pattern of the arm does not match s.                                    *)
get_de_branch(var, s) ==
    IF var.is_other /\ var.is_other_field # None
    THEN Bind(ValueDeserialize(var.is_other_field[1], s), LAMBDA r :
             Some(IF r.ok THEN Ok([ident |-> var.ident, payload |-> Some(r.v[1])])
                  ELSE Err(r.msg)))
    ELSE IF var.map # <<>>
    THEN IF Contains(var.map, s) THEN Some(Ok([ident |-> var.ident, payload |-> None]))
         ELSE None
    ELSE IF s = var.rename[1] THEN Some(Ok([ident |-> var.ident, payload |-> None]))
    ELSE None

(* fn serialize(&self) -> String: match &self over the arms.               *)
enum_value_serialize(E, v) ==
    Bind(EnumValueVariants(E), LAMBDA vs :
        get_ser_branch(vs[FirstIdx(vs, LAMBDA var : var.ident = v.ident)], v))

(* fn deserialize(s: &str) -> Result<Self, String>: match s over the arms  *)
(* in the order of the variants; the first arm whose pattern matches is    *)
(* taken.                                                                  *)
enum_value_deserialize(E, s) ==
    Bind(EnumValueVariants(E), LAMBDA vs :
        get_de_branch(vs[FirstIdx(vs, LAMBDA var : get_de_branch(var, s) # None)], s)[1])

(* The values of an enum: its unit variants and its other variant with     *)
(* every payload.                                                          *)
EnumValuePayloads(ty) ==
    IF ty = "String" THEN {<<>>, <<"x">>, <<"l">>, <<"m">>} ELSE ScalarValues(ty)

EnumValues(E) ==
    UNION {IF EnumValueVariants(E)[k].is_other
           THEN {[ident |-> EnumValueVariants(E)[k].ident, payload |-> Some(x)] :
                    x \in EnumValuePayloads(EnumValueVariants(E)[k].is_other_field[1])}
           ELSE {[ident |-> EnumValueVariants(E)[k].ident, payload |-> None]} :
           k \in 1..Len(EnumValueVariants(E))}

EnumValueStrings == {<<>>, <<"l">>, <<"c">>, <<"m">>, <<"h">>, <<"x">>, <<"7">>}

(* A value to write, or a string to read.                                  *)
InitEnumValue ==
    /\ root \in EnumValueTypes
    /\ doc = <<>>
    /\ res = NoResult
    /\ \/ phase = "value" /\ rec \in {Some(v) : v \in EnumValues(root)} /\ out = <<>>
       \/ phase = "string" /\ rec = None /\ out \in EnumValueStrings

(* <E as XmlValue>::serialize(&v) *)
EnumValueSerialize ==
    /\ phase = "value"
    /\ out' = enum_value_serialize(root, rec[1])
    /\ phase' = "written"
    /\ UNCHANGED <<root, doc, rec, res>>

(* <E as XmlValue>::deserialize(s) *)
EnumValueDeserialize ==
    /\ phase \in {"written", "string"}
    /\ res' = enum_value_deserialize(root, out)
    /\ phase' = IF phase = "written" THEN "reread" ELSE "read"
    /\ UNCHANGED <<root, doc, rec, out>>

NextEnumValue ==
    \/ EnumValueSerialize
    \/ EnumValueDeserialize

SpecEnumValue == InitEnumValue /\ [][NextEnumValue]_vars

(* C40: for an enum deriving XmlEnumValue, deserialize(serialize(v)) is    *)
(* Ok(v) for every value v, wherever the other variant is declared among   *)
(* the variants.                                                           *)
C40_EnumValueRoundTrip ==
    phase = "reread" => res = Ok(rec[1])

====
